---- MODULE Spec2Model ----
(***************************************************************************)
(* Turn engine of the AI-narrated RPG client (App component, first copy in *)
(* src/unnamed/part_000, with services/gemini.ts and services/itemFactory). *)
(* The React state bag `gameState` is one record; the other useState /      *)
(* useRef cells of the component are variables of their own.  Every event   *)
(* handler is one action; the AI call is an asynchronous request kept in    *)
(* `inflight` until its response arrives.                                   *)
(***************************************************************************)
EXTENDS Integers, Sequences, FiniteSets, TLC

VARIABLES
    gameState,       \* useState<GameState>
    currentChoices,  \* useState<ChoiceData[]>
    pendingChoice,   \* useState<ChoiceData | null>
    lastTurnParams,  \* useState<any | null>
    showRetry,       \* useState(false)
    requestIdRef,    \* useRef(0)
    inflight,        \* generateStoryStep calls that have not returned yet
    worldGen,        \* generateMainStory call that has not settled yet
    timers,          \* pending setTimeout(... phase: 'game_over' ..., 1000)
    conDep,          \* value of currentStats.CON seen by the last effect run
    idCounter,       \* entities created so far (ids are unique per session)
    lastAction,      \* history variable: the step that led to this state
    lastTurn,        \* history variable: number of processTurn calls so far
    aiTurnsFor,      \* history variable: AI turns appended per user turn
    settings         \* useState<AppSettings>

vars == <<gameState, currentChoices, pendingChoice, lastTurnParams, showRetry,
          requestIdRef, inflight, worldGen, timers, conDep, idCounter,
          lastAction, lastTurn, aiTurnsFor, settings>>

----------------------------------------------------------------------------
(* Bounds of the model *)

MaxRequestId == 3
MaxHpChange == 150

(* Program constants *)

BASE_HP == 100
EXP_THRESHOLD == 3
INVENTORY_CAP == 8
INITIAL_CUSTOM_CHOICES == 3

StatTypes == {"STR", "DEX", "CON", "INT", "CHA", "PER", "LUK"}
DEFAULT_STATS == [s \in StatTypes |-> 10]
ZeroStats == [s \in StatTypes |-> 0]
ZeroExperience == [s \in StatTypes |-> 0]

(* JavaScript null / undefined: an optional value is a sequence of length  *)
(* at most one.                                                            *)
None == <<>>
Some(v) == <<v>>

Min(a, b) == IF a < b THEN a ELSE b
Max(a, b) == IF a > b THEN a ELSE b

Includes(seq, x) == \E i \in 1..Len(seq) : seq[i] = x

----------------------------------------------------------------------------
(* Names and String.prototype.toLowerCase over the names the model uses *)

Names == {"Sword", "SWORD", "Dagger", "Plate Armor", "Ring of Health", "Rope", "ROPE",
          "Torch", "Map", "Key", "Coin", "Bob", "BOB", "Eve"}

toLowerCase(n) ==
    CASE n = "Sword" -> "sword"
      [] n = "SWORD" -> "sword"
      [] n = "Dagger" -> "dagger"
      [] n = "Plate Armor" -> "plate armor"
      [] n = "Ring of Health" -> "ring of health"
      [] n = "Rope" -> "rope"
      [] n = "ROPE" -> "rope"
      [] n = "Torch" -> "torch"
      [] n = "Map" -> "map"
      [] n = "Key" -> "key"
      [] n = "Coin" -> "coin"
      [] n = "Bob" -> "bob"
      [] n = "BOB" -> "bob"
      [] n = "Eve" -> "eve"
      [] OTHER -> n

(* createItemFromString: type and bonuses from keywords of the name *)
createItemFromString(name, id) ==
    LET lowerName == toLowerCase(name)
        type == CASE lowerName \in {"sword", "dagger"} -> "weapon"
                  [] lowerName = "plate armor" -> "armor"
                  [] lowerName = "ring of health" -> "accessory"
                  [] OTHER -> "misc"
        bonuses == CASE lowerName = "sword" -> [ZeroStats EXCEPT !["STR"] = 1]
                     [] lowerName = "dagger" -> [ZeroStats EXCEPT !["DEX"] = 2]
                     [] lowerName = "plate armor" ->
                            [ZeroStats EXCEPT !["CON"] = 2, !["DEX"] = -1]
                     [] lowerName = "ring of health" ->
                            [ZeroStats EXCEPT !["CON"] = 1]
                     [] OTHER -> ZeroStats
    IN  [id |-> id, name |-> name, type |-> type, bonuses |-> bonuses]

----------------------------------------------------------------------------
(* Derived stats *)

getMod_Truncates(score) ==
    IF score >= 10 THEN (score - 10) \div 2 ELSE -((10 - score) \div 2)

(* Math.floor((score - 10) / 2) *)
getMod(score) == (score - 10) \div 2

RECURSIVE SumModifiers(_, _)
SumModifiers(effects, s) ==
    IF effects = <<>> THEN 0
    ELSE Head(effects).statModifiers[s] + SumModifiers(Tail(effects), s)

SlotBonus(slotValue, s) ==
    IF slotValue = None THEN 0 ELSE slotValue[1].bonuses[s]

calculateStats_KeepsOccupant(baseStats, equipped, activeEffects, extraItem) ==
    [s \in DOMAIN baseStats |->
        baseStats[s] + SlotBonus(equipped.weapon, s)
                     + SlotBonus(equipped.armor, s)
                     + SlotBonus(equipped.accessory, s)
                     + SlotBonus(extraItem, s)
                     + SumModifiers(activeEffects, s)]

(* calculated = { ...baseStats } and then += per bonus: an axis baseStats  *)
(* lacks has no number afterwards either (undefined + n is NaN).  With an  *)
(* extraItem (the previewed item) the slot of its type is skipped and its  *)
(* bonuses are applied instead.                                            *)
calculateStats(baseStats, equipped, activeEffects, extraItem) ==
    LET skipSlot == IF extraItem = None THEN ""
                    ELSE IF extraItem[1].type \in {"weapon", "armor", "accessory"}
                    THEN extraItem[1].type
                    ELSE ""
        Worn(slot, s) ==
            IF skipSlot # slot THEN SlotBonus(equipped[slot], s) ELSE 0
    IN  [s \in DOMAIN baseStats |->
            baseStats[s] + Worn("weapon", s) + Worn("armor", s)
                         + Worn("accessory", s)
                         + SlotBonus(extraItem, s)
                         + SumModifiers(activeEffects, s)]

currentStats(gs) ==
    calculateStats(gs.stats, gs.equipped, gs.activeEffects, None)

(* previewStats for the hovered inventory item, if any *)
previewStats(gs, hoveredInventoryItem) ==
    IF hoveredInventoryItem = None THEN currentStats(gs)
    ELSE IF hoveredInventoryItem[1].type \notin {"weapon", "armor", "accessory"}
    THEN currentStats(gs)
    ELSE calculateStats(gs.stats, gs.equipped, gs.activeEffects,
                        hoveredInventoryItem)

(* Math.round(newMax * (hp / maxHp)) in IEEE-754 double arithmetic.  The   *)
(* quotient hp / maxHp is rounded to a double before it is multiplied, so  *)
(* for some <<newMax, hp, maxHp>> whose exact product ends in .5 the       *)
(* double product is the largest double below that half and Math.round     *)
(* returns the integer below.  HalfLost lists these triples for maxHp and  *)
(* newMax multiples of 10 in -100..200 and hp between 0 and maxHp.         *)
HalfLost ==
    {<<-90, -55, -100>>, <<-50, -55, -100>>, <<-50, -7, -100>>,
     <<50, -57, -100>>, <<50, -29, -100>>, <<90, -35, -100>>,
     <<150, -69, -100>>, <<150, -57, -100>>, <<150, -41, -100>>,
     <<170, -35, -100>>, <<-100, -22, -80>>, <<-90, -44, -80>>,
     <<-50, -44, -80>>, <<90, -28, -80>>, <<100, -46, -80>>,
     <<120, -41, -80>>, <<170, -28, -80>>, <<180, -46, -80>>,
     <<180, -14, -80>>, <<200, -51, -80>>, <<200, -41, -80>>,
     <<200, -23, -80>>, <<-90, -33, -60>>, <<-90, -31, -60>>,
     <<-50, -33, -60>>, <<-30, -31, -60>>, <<90, -21, -60>>,
     <<150, -11, -60>>, <<170, -21, -60>>, <<-100, -11, -40>>,
     <<-90, -22, -40>>, <<-50, -22, -40>>, <<90, -14, -40>>,
     <<100, -23, -40>>, <<170, -14, -40>>, <<180, -23, -40>>,
     <<180, -7, -40>>, <<-90, -11, -20>>, <<-50, -11, -20>>,
     <<90, -7, -20>>, <<170, -7, -20>>, <<-90, 11, 20>>, <<-50, 11, 20>>,
     <<90, 7, 20>>, <<170, 7, 20>>, <<-100, 11, 40>>, <<-90, 22, 40>>,
     <<-50, 22, 40>>, <<90, 14, 40>>, <<100, 23, 40>>, <<170, 14, 40>>,
     <<180, 7, 40>>, <<180, 23, 40>>, <<-90, 31, 60>>, <<-90, 33, 60>>,
     <<-50, 33, 60>>, <<-30, 31, 60>>, <<90, 21, 60>>, <<150, 11, 60>>,
     <<170, 21, 60>>, <<-100, 22, 80>>, <<-90, 44, 80>>, <<-50, 44, 80>>,
     <<90, 28, 80>>, <<100, 46, 80>>, <<120, 41, 80>>, <<170, 28, 80>>,
     <<180, 14, 80>>, <<180, 46, 80>>, <<200, 23, 80>>, <<200, 41, 80>>,
     <<200, 51, 80>>, <<-90, 55, 100>>, <<-50, 7, 100>>, <<-50, 55, 100>>,
     <<50, 29, 100>>, <<50, 57, 100>>, <<90, 35, 100>>, <<150, 41, 100>>,
     <<150, 57, 100>>, <<150, 69, 100>>, <<170, 35, 100>>,
     <<-100, 33, 120>>, <<-90, 62, 120>>, <<-90, 66, 120>>,
     <<-60, 31, 120>>, <<-50, 66, 120>>, <<-30, 62, 120>>, <<90, 42, 120>>,
     <<100, 69, 120>>, <<150, 22, 120>>, <<170, 42, 120>>,
     <<180, 21, 120>>, <<180, 69, 120>>, <<180, 73, 120>>,
     <<-90, 77, 140>>, <<-70, 29, 140>>, <<-70, 81, 140>>,
     <<-50, 77, 140>>, <<70, 47, 140>>, <<90, 49, 140>>, <<170, 49, 140>>,
     <<-100, 44, 160>>, <<-90, 88, 160>>, <<-50, 88, 160>>,
     <<90, 56, 160>>, <<100, 92, 160>>, <<120, 82, 160>>, <<170, 56, 160>>,
     <<180, 28, 160>>, <<180, 92, 160>>, <<200, 46, 160>>,
     <<200, 82, 160>>, <<200, 102, 160>>, <<-90, 29, 180>>,
     <<-90, 55, 180>>, <<-90, 93, 180>>, <<-90, 99, 180>>,
     <<-90, 121, 180>>, <<-90, 127, 180>>, <<-50, 99, 180>>,
     <<-30, 93, 180>>, <<90, 13, 180>>, <<90, 49, 180>>, <<90, 63, 180>>,
     <<90, 109, 180>>, <<90, 115, 180>>, <<150, 33, 180>>,
     <<170, 63, 180>>, <<-100, 7, 200>>, <<-100, 55, 200>>,
     <<-100, 109, 200>>, <<-100, 111, 200>>, <<-90, 110, 200>>,
     <<-50, 14, 200>>, <<-50, 110, 200>>, <<50, 58, 200>>,
     <<50, 114, 200>>, <<90, 70, 200>>, <<100, 29, 200>>, <<100, 57, 200>>,
     <<100, 113, 200>>, <<100, 115, 200>>, <<150, 82, 200>>,
     <<150, 114, 200>>, <<150, 138, 200>>, <<170, 70, 200>>,
     <<180, 35, 200>>, <<180, 115, 200>>}

(* floor(x + 1/2) over the rationals *)
RoundHalfUp(numerator, denominator) ==
    IF denominator > 0
    THEN (2 * numerator + denominator) \div (2 * denominator)
    ELSE (-2 * numerator - denominator) \div (-2 * denominator)

(* A zero maxHp makes the ratio NaN or Infinity in the source; it is kept  *)
(* apart as 0 and no specification below reaches it.                       *)
RoundRatio(newMax, hp, maxHp) ==
    IF maxHp # 0
    THEN RoundHalfUp(newMax * hp, maxHp)
            - (IF <<newMax, hp, maxHp>> \in HalfLost THEN 1 ELSE 0)
    ELSE 0

----------------------------------------------------------------------------
(* The reconcile updater: setGameState(prev => ...) of                     *)
(* generateAndProcessAIResponse.  `base` is the number of ids handed out   *)
(* before the call.                                                        *)

RECURSIVE ApplyNpcUpdates(_, _)
ApplyNpcUpdates(npcs, updates) ==
    IF updates = <<>> THEN npcs
    ELSE LET u == Head(updates)
             hits == {i \in 1..Len(npcs) :
                        toLowerCase(npcs[i].name) = toLowerCase(u.name)}
             patched ==
                IF hits = {} THEN npcs
                ELSE LET index == CHOOSE i \in hits : \A j \in hits : i <= j
                     IN  [npcs EXCEPT ![index] =
                            [@ EXCEPT !.condition = u.condition,
                                      !.type = IF u.status # "" THEN u.status
                                               ELSE @]]
         IN  ApplyNpcUpdates(patched, Tail(updates))

ClampStatDelta_Symmetric(val) == IF val > 5 THEN 5 ELSE IF val < -5 THEN -5 ELSE val

(* if (val > 5) val = 5; if (val < -2) val = -2; *)
ClampStatDelta(val) == IF val > 5 THEN 5 ELSE IF val < -2 THEN -2 ELSE val

SlotDestroyed_Never(slotValue, removedNames) == FALSE

(* newEquipped.X && removedNames.includes(newEquipped.X.name.toLowerCase()) *)
SlotDestroyed(slotValue, removedNames) ==
    slotValue # None /\ Includes(removedNames, toLowerCase(slotValue[1].name))

HpAfter_NoCap(hp, maxHp, hpChange) == Max(0, hp + hpChange)

HpAfter(hp, maxHp, hpChange) == Min(maxHp, Max(0, hp + hpChange))

StatusAfter_TrustsDelta(newHp, game_status) ==
    IF game_status = "" THEN "ongoing" ELSE game_status

StatusAfter(newHp, game_status) ==
    IF newHp <= 0 THEN "lost"
    ELSE IF game_status = "" THEN "ongoing" ELSE game_status

(* finalInventory.filter(item => !removedNames.includes(...)) *)
RemoveNamed(items, removedNames) ==
    SelectSeq(items, LAMBDA item : ~Includes(removedNames, toLowerCase(item.name)))

(* finalInventory.slice(0, 8) when longer *)
CapInventory(items) ==
    IF Len(items) > INVENTORY_CAP THEN SubSeq(items, 1, INVENTORY_CAP) ELSE items

IntakeItems_CapFirst(inventory, newItems, removedNames) ==
    RemoveNamed(CapInventory(inventory \o newItems), removedNames)

(* existing items, then the new ones; removal; then the cap *)
IntakeItems(inventory, newItems, removedNames) ==
    CapInventory(RemoveNamed(inventory \o newItems, removedNames))

QuestAfter_Overwrites(currentQuest, quest_update) == quest_update

(* aiResponse.quest_update || prev.currentQuest *)
QuestAfter(currentQuest, quest_update) ==
    IF quest_update # "" THEN quest_update ELSE currentQuest

LevelUpDue_Late(nextExp) == nextExp > EXP_THRESHOLD

(* nextExp >= EXP_THRESHOLD *)
LevelUpDue(nextExp) == nextExp >= EXP_THRESHOLD

SnapshotHp_Skips(hpHistory, newHp) == hpHistory

(* hpHistory: [...prev.hpHistory, newHp] *)
SnapshotHp(hpHistory, newHp) == Append(hpHistory, newHp)

PhaseAfter(status) == IF status = "ongoing" THEN "playing" ELSE "game_over"

Reconcile(prev, aiResponse, base) ==
    LET added == aiResponse.inventory_added
        nItems == Len(added)
        newItems == [i \in 1..nItems |->
                        createItemFromString(added[i].name, base + i)]
        removedNames == [i \in 1..Len(aiResponse.inventory_removed) |->
                            toLowerCase(aiResponse.inventory_removed[i])]
        capped == IntakeItems(prev.inventory, newItems, removedNames)
        oldEquippedList ==
            prev.equipped.weapon \o prev.equipped.armor \o prev.equipped.accessory
        equippedIds == {oldEquippedList[i].id : i \in 1..Len(oldEquippedList)}
        notEquipped == SelectSeq(capped, LAMBDA i : i.id \notin equippedIds)
        \* items that left a slot without being destroyed go back to the bag
        returned == SelectSeq(oldEquippedList,
                        LAMBDA o : /\ o.id \notin equippedIds
                                   /\ ~Includes(removedNames, toLowerCase(o.name))
                                   /\ \A k \in 1..Len(notEquipped) :
                                          notEquipped[k].id # o.id)
        finalInventory == notEquipped \o returned
        newEquipped ==
            [weapon |-> IF SlotDestroyed(prev.equipped.weapon, removedNames)
                        THEN None ELSE prev.equipped.weapon,
             armor |-> IF SlotDestroyed(prev.equipped.armor, removedNames)
                       THEN None ELSE prev.equipped.armor,
             accessory |-> IF SlotDestroyed(prev.equipped.accessory, removedNames)
                           THEN None ELSE prev.equipped.accessory]
        newHp0 == HpAfter(prev.hp, prev.maxHp, aiResponse.hp_change)
        status == StatusAfter(newHp0, aiResponse.game_status)
        newHp == IF newHp0 <= 0 THEN 0 ELSE newHp0
        upd == aiResponse.stats_update
        statDelta == [s \in StatTypes |->
                        IF s \in DOMAIN upd THEN ClampStatDelta(upd[s]) ELSE 0]
        changedKeys == {s \in StatTypes : statDelta[s] # 0}
        finalStatsUpdate == [s \in changedKeys |-> statDelta[s]]
        newStats0 == [s \in DOMAIN prev.stats |-> prev.stats[s] + statDelta[s]]
        nEffects == Len(aiResponse.new_effects)
        brandNewEffects ==
            [i \in 1..nEffects |->
                [id |-> base + nItems + i,
                 name |-> aiResponse.new_effects[i].name,
                 duration |-> aiResponse.new_effects[i].duration,
                 statModifiers |-> aiResponse.new_effects[i].statModifiers,
                 blocksHeroicActions |->
                     aiResponse.new_effects[i].blocksHeroicActions]]
        npcAdd == aiResponse.npcs_update.add
        nNpcs == Len(npcAdd)
        withAdded == prev.npcs \o
            [i \in 1..nNpcs |->
                [id |-> base + nItems + nEffects + i, name |-> npcAdd[i].name,
                 type |-> npcAdd[i].type, condition |-> npcAdd[i].condition]]
        withUpdated == ApplyNpcUpdates(withAdded, aiResponse.npcs_update.update)
        currentNPCs == SelectSeq(withUpdated,
                          LAMBDA n : ~Includes(aiResponse.npcs_update.remove, n.name))
        hasResult == aiResponse.action_result # None
        ar == aiResponse.action_result[1]
        xpKnown == hasResult /\ ar.stat \in DOMAIN prev.statExperience
        nextExp == IF xpKnown THEN prev.statExperience[ar.stat] + 1 ELSE 0
        levelsUp == hasResult /\ ar.is_success /\ xpKnown
                    /\ ar.stat \in DOMAIN prev.stats
                    /\ LevelUpDue(nextExp)
        newStats == IF levelsUp
                    THEN [newStats0 EXCEPT ![ar.stat] = @ + 1] ELSE newStats0
        \* undefined + 1 is NaN: the axis stays without a number
        finalStatExp ==
            IF hasResult /\ ar.is_success /\ xpKnown
            THEN [prev.statExperience EXCEPT
                     ![ar.stat] = IF levelsUp THEN 0 ELSE nextExp]
            ELSE prev.statExperience
        aiTurn == [isUserTurn |-> FALSE,
                   text |-> aiResponse.narrative,
                   statsUpdated |-> finalStatsUpdate,
                   inventoryAdded |-> [i \in 1..nItems |-> added[i].name],
                   inventoryRemoved |-> aiResponse.inventory_removed,
                   rollResult |->
                       IF hasResult
                       THEN Some([statType |-> ar.stat, total |-> ar.total,
                                  difficulty |-> ar.difficulty,
                                  base |-> ar.base_roll,
                                  modifier |-> ar.total - ar.base_roll,
                                  isSuccess |-> ar.is_success])
                       ELSE None,
                   levelUpEvent |->
                       IF levelsUp
                       THEN Some([stat |-> ar.stat,
                                  oldValue |-> newStats0[ar.stat],
                                  newValue |-> newStats0[ar.stat] + 1])
                       ELSE None]
    IN  [state |->
            [prev EXCEPT
                !.history = Append(@, aiTurn),
                !.inventory = finalInventory,
                !.equipped = newEquipped,
                !.activeEffects = @ \o brandNewEffects,
                !.currentQuest = QuestAfter(@, aiResponse.quest_update),
                !.npcs = currentNPCs,
                !.isLoading = FALSE,
                !.hp = newHp,
                !.hpHistory = SnapshotHp(@, newHp),
                !.stats = newStats,
                !.statExperience = finalStatExp,
                !.gameStatus = status,
                !.phase = PhaseAfter(status)],
         schedulesGameOver |-> status # "ongoing",
         created |-> nItems + nEffects + nNpcs]

----------------------------------------------------------------------------
(* What the AI service can return *)

EmptyDelta ==
    [narrative |-> "story", choices |-> <<>>,
     inventory_added |-> <<>>, inventory_removed |-> <<>>,
     equipment_update |-> [equip |-> <<>>, unequip |-> <<>>],
     quest_update |-> "", hp_change |-> 0, game_status |-> "",
     stats_update |-> <<>>, new_effects |-> <<>>,
     npcs_update |-> [add |-> <<>>, update |-> <<>>, remove |-> <<>>],
     action_result |-> None]

Choice(text, type, difficulty) ==
    [text |-> text, type |-> type, difficulty |-> difficulty]

StandardChoices == <<Choice("*Attack*", "STR", Some(12)), Choice("Talk", "", None)>>

(* generateStoryStep never rejects on a transport or JSON error: it        *)
(* resolves to one of two canned responses.                                *)
TransportFallback ==
    [EmptyDelta EXCEPT
        !.narrative = "The mists of time obscure the path forward...",
        !.choices = <<Choice("Attempt to reconnect with reality", "", None)>>,
        !.hp_change = 0, !.game_status = "ongoing"]

ParseFallback ==
    [EmptyDelta EXCEPT
        !.narrative = "The world shifts and blurs...",
        !.choices = <<Choice("Try to focus", "", None)>>,
        !.game_status = "ongoing"]

(* Outcomes of the remote call: a parsed delta, a transport error, text    *)
(* that is not JSON, or JSON that is not an object (null).                 *)
generateStoryStep(outcome) ==
    CASE outcome.kind = "delta" -> Some(outcome.delta)
      [] outcome.kind = "transport" -> Some(TransportFallback)
      [] outcome.kind = "parse" -> Some(ParseFallback)
      [] OTHER -> None

PlainDelta == [EmptyDelta EXCEPT !.choices = StandardChoices,
                                 !.game_status = "ongoing"]

Outcomes ==
    {[kind |-> "delta", delta |-> d] :
        d \in {PlainDelta,
               [PlainDelta EXCEPT !.hp_change = -150],
               [PlainDelta EXCEPT !.game_status = "won", !.choices = <<>>]}}
    \cup {[kind |-> k, delta |-> EmptyDelta] :
            k \in {"transport", "parse", "malformed"}}

RollBases == {1, 20}

(* StatBuilder hands over six axes (no LUK), each 9..12 plus a share of  *)
(* the 5 pool points.                                                      *)
BuilderBase == [s \in {"STR", "DEX", "CON", "INT", "CHA", "PER"} |-> 10]
BuilderStats == {BuilderBase, [BuilderBase EXCEPT !["CON"] = 12]}
enableDiceRolls == settings.enableDiceRolls

(* inferStatFromText: external keyword classifier *)
inferStatFromText(text) == ""

(* Choice sanitising of generateAndProcessAIResponse *)
SanitizeChoices(choices, draw) ==
    [i \in 1..Len(choices) |->
        LET c == choices[i]
            type == IF c.type = "" THEN inferStatFromText(c.text) ELSE c.type
            difficulty == IF type # "" /\ c.difficulty = None
                          THEN Some(8 + draw) ELSE c.difficulty
        IN  Choice(c.text, type, difficulty)]

(* userText.replace(/\*/g, '') *)
StripAsterisks(text) == IF text = "*Attack*" THEN "Attack" ELSE text

----------------------------------------------------------------------------
(* Initial state: the values of the useState / useRef initialisers *)

NoGear == [weapon |-> None, armor |-> None, accessory |-> None]

InitialGameState ==
    [inventory |-> <<>>, equipped |-> NoGear, currentQuest |-> "",
     npcs |-> <<>>, history |-> <<>>, isLoading |-> FALSE,
     isRolling |-> FALSE, hp |-> BASE_HP, maxHp |-> BASE_HP,
     hpHistory |-> <<BASE_HP>>, gameStatus |-> "ongoing", phase |-> "menu",
     stats |-> DEFAULT_STATS, statExperience |-> ZeroExperience,
     activeEffects |-> <<>>,
     customChoicesRemaining |-> INITIAL_CUSTOM_CHOICES]

InitialSettings == [storyModel |-> "smart", enableDiceRolls |-> TRUE]

Step(name) ==
    [name |-> name, req |-> 0, kind |-> "", outcome |-> "", delta |-> None,
     text |-> <<>>]

Init ==
    /\ gameState = InitialGameState
    /\ currentChoices = <<>>
    /\ pendingChoice = None
    /\ lastTurnParams = None
    /\ showRetry = FALSE
    /\ requestIdRef = 0
    /\ inflight = {}
    /\ worldGen = <<>>
    /\ timers = 0
    /\ conDep = currentStats(InitialGameState)["CON"]
    /\ idCounter = 0
    /\ lastAction = Step("init")
    /\ lastTurn = 0
    /\ aiTurnsFor = <<>>
    /\ settings = InitialSettings

----------------------------------------------------------------------------
(* useEffect(..., [currentStats.CON]): runs after the commit that changed  *)
(* the effective CON, before any other event is handled.                   *)

EffectPending == currentStats(gameState)["CON"] # conDep

RecomputeMaxHp(prev, con) ==
    LET conMod == getMod(con)
        newMax == BASE_HP + (conMod * 10)
    IN  IF prev.maxHp # newMax
        THEN [prev EXCEPT !.maxHp = newMax,
                          !.hp = RoundRatio(newMax, prev.hp, prev.maxHp)]
        ELSE prev

useEffectMaxHp ==
    /\ EffectPending
    /\ gameState' = RecomputeMaxHp(gameState, currentStats(gameState)["CON"])
    /\ conDep' = currentStats(gameState)["CON"]
    /\ lastAction' = Step("useEffectMaxHp")
    /\ UNCHANGED settings
    /\ UNCHANGED <<currentChoices, pendingChoice, lastTurnParams, showRetry,
                   requestIdRef, inflight, worldGen, timers, idCounter,
                   lastTurn, aiTurnsFor>>

----------------------------------------------------------------------------
(* Issuing a turn *)

DecrementEffects(effects) ==
    SelectSeq([i \in 1..Len(effects) |->
                  [effects[i] EXCEPT !.duration = @ - 1]],
              LAMBDA e : e.duration > 0)

TurnParams(userText, rollResult, customAction, overrideArc, decrementedEffects) ==
    [userText |-> userText, rollResult |-> rollResult,
     customAction |-> customAction, overrideArc |-> overrideArc,
     decrementedEffects |-> decrementedEffects]

Request(id, turn, params) == [id |-> id, turn |-> turn, params |-> params]

(* generateAndProcessAIResponse up to its await: take the next request id  *)
(* and start the call.                                                     *)
NextRequestId_Stuck == requestIdRef

(* ++requestIdRef.current *)
NextRequestId == requestIdRef + 1

IssueRequest(turn, params) ==
    /\ requestIdRef < MaxRequestId
    /\ requestIdRef' = NextRequestId
    /\ inflight' = inflight \cup {Request(NextRequestId, turn, params)}

WithUserTurn_Late(history, userTurn) == history

(* history: [...prev.history, userTurn] *)
WithUserTurn(history, userTurn) == Append(history, userTurn)

(* processTurn, called by a handler whose own queued updates turn the      *)
(* state into `base`; `closureEffects` is gameState.activeEffects of the   *)
(* render the handler belongs to.                                          *)
processTurn(base, closureEffects, userText, rollResult, customAction, levelUpEvent, overrideArc) ==
    LET userTurn == [isUserTurn |-> TRUE, text |-> StripAsterisks(userText),
                     rollResult |-> rollResult, levelUpEvent |-> levelUpEvent]
        decrementedEffects == DecrementEffects(closureEffects)
        params == TurnParams(userText, rollResult, customAction, overrideArc,
                             decrementedEffects)
    IN  /\ lastTurnParams' = Some(params)
        /\ gameState' = [base EXCEPT !.history = WithUserTurn(@, userTurn),
                                     !.isLoading = TRUE,
                                     !.activeEffects = decrementedEffects]
        /\ IssueRequest(lastTurn + 1, params)
        /\ lastTurn' = lastTurn + 1
        /\ aiTurnsFor' = Append(aiTurnsFor, 0)

----------------------------------------------------------------------------
(* Game set-up *)

handleNewGame ==
    /\ ~EffectPending
    /\ gameState.phase = "menu"
    /\ gameState' = [gameState EXCEPT
            !.phase = "setup_genre", !.history = <<>>, !.inventory = <<>>,
            !.npcs = <<>>, !.equipped = NoGear, !.hpHistory = <<BASE_HP>>,
            !.statExperience = ZeroExperience, !.activeEffects = <<>>,
            !.customChoicesRemaining = INITIAL_CUSTOM_CHOICES]
    /\ lastAction' = Step("handleNewGame")
    /\ UNCHANGED settings
    /\ UNCHANGED <<currentChoices, pendingChoice, lastTurnParams, showRetry,
                   requestIdRef, inflight, worldGen, timers, conDep, idCounter,
                   lastTurn, aiTurnsFor>>

handleGenreSelect ==
    /\ ~EffectPending
    /\ gameState.phase = "setup_genre"
    /\ gameState' = [gameState EXCEPT !.phase = "setup_stats"]
    /\ lastAction' = Step("handleGenreSelect")
    /\ UNCHANGED settings
    /\ UNCHANGED <<currentChoices, pendingChoice, lastTurnParams, showRetry,
                   requestIdRef, inflight, worldGen, timers, conDep, idCounter,
                   lastTurn, aiTurnsFor>>

MaxWorldGen == 1

handleStatsComplete(stats) ==
    /\ ~EffectPending
    /\ gameState.phase = "setup_stats"
    /\ Len(worldGen) < MaxWorldGen
    /\ gameState' = [gameState EXCEPT !.stats = stats,
                                      !.phase = "creating_world"]
    /\ worldGen' = Append(worldGen, gameState.activeEffects)
    /\ lastAction' = Step("handleStatsComplete")
    /\ UNCHANGED settings
    /\ UNCHANGED <<currentChoices, pendingChoice, lastTurnParams, showRetry,
                   requestIdRef, inflight, timers, conDep, idCounter,
                   lastTurn, aiTurnsFor>>

(* generateMainStory settles: .then(arc => ...) or .catch(err => ...) *)
MainStorySettles(i, overrideArc) ==
    /\ ~EffectPending
    /\ i \in 1..Len(worldGen)
    /\ processTurn([gameState EXCEPT !.phase = "playing"], worldGen[i],
                   "Begin the adventure.", None, None, None, overrideArc)
    /\ worldGen' = SubSeq(worldGen, 1, i - 1) \o SubSeq(worldGen, i + 1, Len(worldGen))
    /\ lastAction' = Step("MainStorySettles")
    /\ UNCHANGED settings
    /\ UNCHANGED <<currentChoices, pendingChoice, showRetry, timers, conDep,
                   idCounter>>

handleRestart ==
    /\ ~EffectPending
    /\ gameState' = [InitialGameState EXCEPT
            !.statExperience = [s \in {"STR", "DEX", "CON", "INT", "CHA"} |-> 0]]
    /\ currentChoices' = <<>>
    /\ lastAction' = Step("handleRestart")
    /\ UNCHANGED settings
    /\ UNCHANGED <<pendingChoice, lastTurnParams, showRetry, requestIdRef,
                   inflight, worldGen, timers, conDep, idCounter, lastTurn,
                   aiTurnsFor>>

----------------------------------------------------------------------------
(* Player input during play *)

ChoicesShown == gameState.phase = "playing"
StoryFeedShown == gameState.phase \in {"playing", "game_over"}

isHeroicBlocked ==
    \E i \in 1..Len(gameState.activeEffects) :
        gameState.activeEffects[i].blocksHeroicActions

AwardRollXp_FailureCosts(prev, statType, isSuccess) ==
    LET known == statType \in DOMAIN prev.statExperience
        rolling == [prev EXCEPT !.isRolling = TRUE]
    IN  IF ~known THEN rolling
        ELSE IF ~isSuccess
        THEN [rolling EXCEPT !.statExperience[statType] = @ - 1]
        ELSE IF LevelUpDue(prev.statExperience[statType] + 1)
        THEN [rolling EXCEPT !.statExperience[statType] = 0,
                             !.stats[statType] = @ + 1]
        ELSE [rolling EXCEPT !.statExperience[statType] = @ + 1]

(* setGameState(prev => ...) of handleChoiceClick: roll flag and XP *)
AwardRollXp(prev, statType, isSuccess) ==
    LET known == statType \in DOMAIN prev.statExperience
        nextExp == IF known THEN prev.statExperience[statType] + 1 ELSE 0
        rolling == [prev EXCEPT !.isRolling = TRUE]
    IN  IF isSuccess /\ known
        THEN IF LevelUpDue(nextExp)
             THEN [rolling EXCEPT !.statExperience[statType] = 0,
                                  !.stats[statType] = @ + 1]
             ELSE [rolling EXCEPT !.statExperience[statType] = nextExp]
        ELSE rolling

RollLevelsUp(prev, statType, isSuccess) ==
    /\ isSuccess
    /\ statType \in DOMAIN prev.statExperience
    /\ LevelUpDue(prev.statExperience[statType] + 1)

handleChoiceClick(choice, rollBase, eager) ==
    /\ ~EffectPending
    /\ ChoicesShown
    /\ Includes(currentChoices, choice)
    /\ ~(gameState.isLoading \/ gameState.isRolling)
    /\ IF enableDiceRolls /\ choice.difficulty # None
          /\ choice.difficulty # Some(0) /\ choice.type # ""
       THEN LET mod == getMod(currentStats(gameState)[choice.type])
                total == rollBase + mod
                isSuccess == total >= choice.difficulty[1]
                result == [base |-> rollBase, modifier |-> mod,
                           total |-> total, isSuccess |-> isSuccess,
                           statType |-> choice.type,
                           difficulty |-> choice.difficulty[1]]
                \* levelUpEvent is assigned inside the queued updater; the
                \* call below sees it only when React ran the updater eagerly
                levelUpEvent ==
                    IF eager /\ RollLevelsUp(gameState, choice.type, isSuccess)
                    THEN Some([stat |-> choice.type,
                               oldValue |-> gameState.stats[choice.type],
                               newValue |-> gameState.stats[choice.type] + 1])
                    ELSE None
            IN  /\ (eager => RollLevelsUp(gameState, choice.type, isSuccess))
                /\ pendingChoice' = Some(choice)
                /\ processTurn(AwardRollXp(gameState, choice.type, isSuccess),
                               gameState.activeEffects, choice.text,
                               Some(result), None, levelUpEvent, None)
       ELSE /\ rollBase = 1 /\ ~eager
            /\ pendingChoice' = pendingChoice
            /\ processTurn(gameState, gameState.activeEffects, choice.text,
                           None, None, None, None)
    /\ lastAction' = Step("handleChoiceClick")
    /\ UNCHANGED settings
    /\ UNCHANGED <<currentChoices, showRetry, worldGen, timers, conDep,
                   idCounter>>

OwnedItemNames ==
    LET all == gameState.inventory \o gameState.equipped.weapon
               \o gameState.equipped.armor \o gameState.equipped.accessory
    IN  {all[i].name : i \in 1..Len(all)}

HeroicBudgetSpent_Never(gs) == FALSE

(* gameState.customChoicesRemaining <= 0 *)
HeroicBudgetSpent(gs) == gs.customChoicesRemaining <= 0

handleCustomChoiceSubmit(text, itemName, roll) ==
    /\ ~EffectPending
    /\ ChoicesShown
    /\ ~gameState.isLoading
    /\ ~HeroicBudgetSpent(gameState)
    /\ ~isHeroicBlocked
    /\ itemName \in {"None"} \cup OwnedItemNames
    /\ processTurn([gameState EXCEPT !.customChoicesRemaining = @ - 1],
                   gameState.activeEffects, text, None,
                   Some([text |-> text, item |-> itemName, roll |-> roll]),
                   None, None)
    /\ lastAction' = Step("handleCustomChoiceSubmit")
    /\ UNCHANGED settings
    /\ UNCHANGED <<currentChoices, pendingChoice, showRetry, worldGen, timers,
                   conDep, idCounter>>

handleRollComplete ==
    /\ ~EffectPending
    /\ gameState.isRolling
    /\ pendingChoice # None
    /\ gameState' = [gameState EXCEPT !.isRolling = FALSE]
    /\ pendingChoice' = None
    /\ lastAction' = Step("handleRollComplete")
    /\ UNCHANGED settings
    /\ UNCHANGED <<currentChoices, lastTurnParams, showRetry, requestIdRef,
                   inflight, worldGen, timers, conDep, idCounter, lastTurn,
                   aiTurnsFor>>

----------------------------------------------------------------------------
(* Equipment handlers.  The sidebars call them with an item of the         *)
(* rendered inventory (Equip button, drop on a slot) or of a rendered slot *)
(* (Unequip button, drop on the bag).                                      *)

SlotOf(item) ==
    IF item.type \in {"weapon", "armor", "accessory"} THEN item.type ELSE ""

WithoutItem_Keeps(inventory, id) == inventory

(* prev.inventory.filter(i => i.id !== item.id) *)
WithoutItem(inventory, id) == SelectSeq(inventory, LAMBDA i : i.id # id)

EquipUpdater(prev, item) ==
    LET newInventory == WithoutItem(prev.inventory, item.id)
        slot == SlotOf(item)
    IN  IF slot = "" THEN prev
        ELSE [prev EXCEPT !.inventory = newInventory \o prev.equipped[slot],
                          !.equipped[slot] = Some(item)]

handleEquip(item) ==
    /\ ~EffectPending
    /\ gameState' = EquipUpdater(gameState, item)
    /\ lastAction' = Step("handleEquip")
    /\ UNCHANGED <<currentChoices, pendingChoice, lastTurnParams, showRetry,
                   requestIdRef, inflight, worldGen, timers, conDep, idCounter,
                   lastTurn, aiTurnsFor, settings>>

InventoryFull_Never(prev) == FALSE

(* prev.inventory.length >= 8 *)
InventoryFull(prev) == Len(prev.inventory) >= INVENTORY_CAP

UnequipUpdater(prev, item) ==
    LET slot == SlotOf(item)
    IN  IF InventoryFull(prev) THEN prev
        ELSE IF slot = "" THEN prev
        ELSE IF prev.equipped[slot] = None \/ prev.equipped[slot][1].id # item.id
        THEN prev
        ELSE [prev EXCEPT !.equipped[slot] = None,
                          !.inventory = Append(@, item)]

handleUnequip(item) ==
    /\ ~EffectPending
    /\ gameState' = UnequipUpdater(gameState, item)
    /\ lastAction' = Step("handleUnequip")
    /\ UNCHANGED <<currentChoices, pendingChoice, lastTurnParams, showRetry,
                   requestIdRef, inflight, worldGen, timers, conDep, idCounter,
                   lastTurn, aiTurnsFor, settings>>

handleDiscard(item) ==
    /\ ~EffectPending
    /\ gameState' = [gameState EXCEPT !.inventory = WithoutItem(@, item.id)]
    /\ lastAction' = Step("handleDiscard")
    /\ UNCHANGED <<currentChoices, pendingChoice, lastTurnParams, showRetry,
                   requestIdRef, inflight, worldGen, timers, conDep, idCounter,
                   lastTurn, aiTurnsFor, settings>>

(* Items the sidebars offer *)
EquippedItems(gs) == gs.equipped.weapon \o gs.equipped.armor \o gs.equipped.accessory
SidebarsShown == gameState.phase \in {"playing", "game_over"}

----------------------------------------------------------------------------
(* Stop and Retry *)

handleStopRequest_Waits ==
    /\ requestIdRef < MaxRequestId
    /\ \A r \in inflight : r.id # requestIdRef
    /\ requestIdRef' = NextRequestId
    /\ gameState' = [gameState EXCEPT !.isLoading = FALSE]
    /\ showRetry' = TRUE
    /\ lastAction' = Step("handleStopRequest")
    /\ UNCHANGED settings
    /\ UNCHANGED <<currentChoices, pendingChoice, lastTurnParams, inflight,
                   worldGen, timers, conDep, idCounter, lastTurn, aiTurnsFor>>

handleStopRequest ==
    /\ requestIdRef < MaxRequestId
    /\ requestIdRef' = NextRequestId
    /\ gameState' = [gameState EXCEPT !.isLoading = FALSE]
    /\ showRetry' = TRUE
    /\ lastAction' = Step("handleStopRequest")
    /\ UNCHANGED settings
    /\ UNCHANGED <<currentChoices, pendingChoice, lastTurnParams, inflight,
                   worldGen, timers, conDep, idCounter, lastTurn, aiTurnsFor>>

RetryParams_DropsRoll == [lastTurnParams[1] EXCEPT !.rollResult = None]

(* const { userText, rollResult, ... } = lastTurnParams *)
RetryParams == lastTurnParams[1]

handleRetryRequest_Replays ==
    /\ lastTurnParams # None
    /\ showRetry' = FALSE
    /\ processTurn(gameState, gameState.activeEffects, RetryParams.userText,
                   RetryParams.rollResult, RetryParams.customAction, None,
                   RetryParams.overrideArc)
    /\ lastAction' = Step("handleRetryRequest")
    /\ UNCHANGED settings
    /\ UNCHANGED <<currentChoices, pendingChoice, worldGen, timers, conDep,
                   idCounter>>

handleRetryRequest ==
    /\ lastTurnParams # None
    /\ showRetry' = FALSE
    /\ gameState' = [gameState EXCEPT !.isLoading = TRUE]
    /\ IssueRequest(lastTurn, RetryParams)
    /\ lastAction' = Step("handleRetryRequest")
    /\ UNCHANGED settings
    /\ UNCHANGED <<currentChoices, pendingChoice, lastTurnParams, worldGen,
                   timers, conDep, idCounter, lastTurn, aiTurnsFor>>

----------------------------------------------------------------------------
(* The awaited generateStoryStep call of request r returns *)

ResponseStep(r, outcome, result) ==
    [name |-> "aiResponse", req |-> r.id, kind |-> outcome.kind,
     outcome |-> result, delta |-> generateStoryStep(outcome), text |-> <<>>]

IsCurrent_Always(id) == TRUE

(* currentRequestId === requestIdRef.current *)
IsCurrent(id) == id = requestIdRef

FailedState_StaysLoading(prev) == prev

(* setGameState(prev => ({ ...prev, isLoading: false })) of the catch block *)
FailedState(prev) == [prev EXCEPT !.isLoading = FALSE]

AIResponse(r, outcome, draw) ==
    LET aiResponse == generateStoryStep(outcome)
    IN  /\ ~EffectPending
        /\ r \in inflight
        /\ inflight' = inflight \ {r}
        /\ IF ~IsCurrent(r.id)
           THEN \* "Request cancelled or superseded"
                /\ lastAction' = ResponseStep(r, outcome, "discarded")
                /\ UNCHANGED <<gameState, currentChoices, showRetry, timers,
                               idCounter, aiTurnsFor>>
           ELSE IF aiResponse = None
           THEN \* aiResponse.choices throws; catch block
                /\ gameState' = FailedState(gameState)
                /\ showRetry' = TRUE
                /\ lastAction' = ResponseStep(r, outcome, "failed")
                /\ UNCHANGED <<currentChoices, timers, idCounter, aiTurnsFor>>
           ELSE LET sanitized == [aiResponse[1] EXCEPT
                                     !.choices = SanitizeChoices(@, draw)]
                    rec == Reconcile(gameState, sanitized, idCounter)
                IN  /\ gameState' = rec.state
                    /\ timers' = IF rec.schedulesGameOver
                                 THEN timers + 1 ELSE timers
                    /\ idCounter' = idCounter + rec.created
                    /\ currentChoices' = sanitized.choices
                    /\ aiTurnsFor' = [aiTurnsFor EXCEPT ![r.turn] = @ + 1]
                    /\ lastAction' = ResponseStep(r, outcome, "applied")
                    /\ UNCHANGED showRetry
        /\ UNCHANGED <<pendingChoice, lastTurnParams, requestIdRef, worldGen,
                       conDep, lastTurn, settings>>

(* The callback of setTimeout(..., 1000) scheduled by the updater *)
GameOverTimer ==
    /\ ~EffectPending
    /\ timers > 0
    /\ timers' = timers - 1
    /\ gameState' = [gameState EXCEPT !.phase = "game_over"]
    /\ lastAction' = Step("GameOverTimer")
    /\ UNCHANGED settings
    /\ UNCHANGED <<currentChoices, pendingChoice, lastTurnParams, showRetry,
                   requestIdRef, inflight, worldGen, conDep, idCounter,
                   lastTurn, aiTurnsFor>>

----------------------------------------------------------------------------

Next ==
    \/ useEffectMaxHp
    \/ handleNewGame
    \/ handleGenreSelect
    \/ \E stats \in BuilderStats : handleStatsComplete(stats)
    \/ \E i \in 1..Len(worldGen), arc \in {None, Some("arc")} :
          MainStorySettles(i, arc)
    \/ \E i \in 1..Len(currentChoices), rollBase \in RollBases,
          eager \in BOOLEAN :
          handleChoiceClick(currentChoices[i], rollBase, eager)
    \/ \E roll \in RollBases :
          handleCustomChoiceSubmit("Heroic deed", "None", roll)
    \/ handleRollComplete
    \/ (~EffectPending /\ StoryFeedShown /\ handleStopRequest)
    \/ (~EffectPending /\ StoryFeedShown /\ handleRetryRequest)
    \/ \E r \in inflight, outcome \in Outcomes, draw \in {0, 4} :
          AIResponse(r, outcome, draw)
    \/ GameOverTimer

Spec == Init /\ [][Next]_vars

(* The same with the resets that start another game *)
NextSession == Next \/ handleRestart

SpecSession == Init /\ [][NextSession]_vars

----------------------------------------------------------------------------
(* One reconcile step from an arbitrary valid hp / maxHp and an arbitrary  *)
(* hp_change and game_status                                               *)

ReconcileDeltas ==
    {[PlainDelta EXCEPT !.hp_change = c, !.game_status = st] :
        c \in {-MaxHpChange, -41, -40, -39, -1, 0, 1, 60, MaxHpChange},
        st \in {"", "ongoing", "won", "lost"}}

PlayingState(con, hp) ==
    [InitialGameState EXCEPT
        !.phase = "playing", !.isLoading = TRUE,
        !.stats = [BuilderBase EXCEPT !["CON"] = con],
        !.maxHp = BASE_HP + getMod(con) * 10, !.hp = hp,
        !.hpHistory = <<BASE_HP, hp>>,
        !.history = <<[isUserTurn |-> TRUE, text |-> "Talk",
                       rollResult |-> None, levelUpEvent |-> None]>>]

InitReconcile ==
    \E con \in {8, 10, 12} :
    \E hp \in 0..(BASE_HP + getMod(con) * 10) :
        LET params == TurnParams("Talk", None, None, None, <<>>)
        IN  /\ gameState = PlayingState(con, hp)
            /\ currentChoices = StandardChoices
            /\ pendingChoice = None
            /\ lastTurnParams = Some(params)
            /\ showRetry = FALSE
            /\ requestIdRef = 1
            /\ inflight = {Request(1, 1, params)}
            /\ worldGen = <<>>
            /\ timers = 0
            /\ conDep = con
            /\ idCounter = 0
            /\ lastAction = Step("init")
            /\ lastTurn = 1
            /\ aiTurnsFor = <<0>>
            /\ settings = InitialSettings

NextReconcile ==
    \/ \E r \in inflight, d \in ReconcileDeltas :
          AIResponse(r, [kind |-> "delta", delta |-> d], 0)
    \/ GameOverTimer

SpecReconcile == InitReconcile /\ [][NextReconcile]_vars

----------------------------------------------------------------------------
(* Play with a filled bag: item deltas, equip, unequip and discard, from a *)
(* playing state whose bag holds BagSize items, with one effect, one NPC   *)
(* and a quest.                                                            *)

Bag(n) ==
    [i \in 1..n |->
        createItemFromString(<<"Sword", "Plate Armor", "Rope", "Torch", "Map",
                               "Key", "Coin", "Rope">>[i], i)]

TalkChoices == <<Choice("Talk", "", None)>>
QuietDelta == [EmptyDelta EXCEPT !.choices = TalkChoices]
SwapDelta ==
    [QuietDelta EXCEPT !.inventory_removed = <<"ROPE">>,
                       !.inventory_added = <<[name |-> "Map"], [name |-> "Key"]>>]
BreakDelta == [QuietDelta EXCEPT !.inventory_removed = <<"sword">>]
InventoryDeltas ==
    {EmptyDelta,
     [QuietDelta EXCEPT !.inventory_added =
         <<[name |-> "ROPE"], [name |-> "SWORD"]>>],
     SwapDelta, BreakDelta}

BagState(n) ==
    [PlayingState(10, 40) EXCEPT
        !.inventory = Bag(n),
        !.currentQuest = "Find the key",
        !.activeEffects = <<[id |-> 9, name |-> "Blessed", duration |-> 3,
                             statModifiers |-> ZeroStats,
                             blocksHeroicActions |-> FALSE]>>,
        !.npcs = <<[id |-> 10, name |-> "Bob", type |-> "Friendly",
                    condition |-> "Healthy"]>>]

(* the player discards from either end of the list *)

InitInventory ==
    \E n \in {2, 7, 8} :
        LET params == TurnParams("Talk", None, None, None, <<>>)
        IN  /\ gameState = BagState(n)
            /\ currentChoices = TalkChoices
            /\ pendingChoice = None
            /\ lastTurnParams = Some(params)
            /\ showRetry = FALSE
            /\ requestIdRef = 1
            /\ inflight = {Request(1, 1, params)}
            /\ worldGen = <<>>
            /\ timers = 0
            /\ conDep = 10
            /\ idCounter = 10
            /\ lastAction = Step("init")
            /\ lastTurn = 1
            /\ aiTurnsFor = <<0>>
            /\ settings = InitialSettings

NextInventory ==
    \/ useEffectMaxHp
    \/ \E i \in 1..Len(gameState.inventory) :
          /\ SidebarsShown
          /\ SlotOf(gameState.inventory[i]) # ""
          /\ handleEquip(gameState.inventory[i])
    \/ \E i \in 1..Len(EquippedItems(gameState)) :
          SidebarsShown /\ handleUnequip(EquippedItems(gameState)[i])
    \/ \E i \in {i \in {1, Len(gameState.inventory)} : i >= 1} :
          SidebarsShown /\ handleDiscard(gameState.inventory[i])
    \/ \E r \in inflight, d \in InventoryDeltas :
          AIResponse(r, [kind |-> "delta", delta |-> d], 0)

SpecInventory == InitInventory /\ [][NextInventory]_vars

(* The same play with responses that carry equipment_update directives *)
DirectiveDeltas ==
    {[QuietDelta EXCEPT !.equipment_update =
                            [equip |-> <<"sword">>, unequip |-> <<>>]],
     [QuietDelta EXCEPT !.equipment_update =
                            [equip |-> <<>>, unequip |-> <<"Plate Armor">>]]}

NextDirectives ==
    \/ useEffectMaxHp
    \/ \E i \in 1..Len(gameState.inventory) :
          /\ SidebarsShown
          /\ SlotOf(gameState.inventory[i]) # ""
          /\ handleEquip(gameState.inventory[i])
    \/ \E i \in 1..Len(EquippedItems(gameState)) :
          SidebarsShown /\ handleUnequip(EquippedItems(gameState)[i])
    \/ \E r \in inflight, d \in DirectiveDeltas :
          AIResponse(r, [kind |-> "delta", delta |-> d], 0)

SpecDirectives == InitInventory /\ [][NextDirectives]_vars

----------------------------------------------------------------------------
(* Loading a save: the onload callback of the FileReader.  A file is text  *)
(* that does not parse, JSON null, or an object whose gameState,           *)
(* currentChoices and settings members may be missing; a saved gameState   *)
(* may lack npcs.                                                          *)

SaveFile(parse, gs, choices, sets) ==
    [parse |-> parse, gameState |-> gs, currentChoices |-> choices,
     settings |-> sets]

LoadedState_EmptiesNpcs(saved) ==
    [f \in DOMAIN saved \cup {"npcs"} |->
        IF f = "npcs" THEN <<>> ELSE saved[f]]

(* { ...data.gameState, npcs: data.gameState.npcs || [] } *)
LoadedState(saved) ==
    [f \in DOMAIN saved \cup {"npcs"} |->
        IF f = "npcs"
        THEN IF "npcs" \in DOMAIN saved THEN saved.npcs ELSE <<>>
        ELSE saved[f]]

handleLoadGame(file) ==
    /\ ~EffectPending
    /\ IF file.parse # "object"
          \/ file.gameState = None \/ file.currentChoices = None
       THEN \* alert("Failed to load save file.") / alert("Invalid save file format.")
            /\ lastAction' = [Step("handleLoadGame") EXCEPT
                                 !.kind = file.parse, !.outcome = "alert",
                                 !.delta = Some(file)]
            /\ UNCHANGED <<gameState, currentChoices, settings>>
       ELSE /\ gameState' = LoadedState(file.gameState[1])
            /\ currentChoices' = file.currentChoices[1]
            /\ settings' = IF file.settings # None THEN file.settings[1]
                           ELSE settings
            /\ lastAction' = [Step("handleLoadGame") EXCEPT
                                 !.kind = file.parse, !.outcome = "loaded",
                                 !.delta = Some(file)]
    /\ UNCHANGED <<pendingChoice, lastTurnParams, showRetry, requestIdRef,
                   inflight, worldGen, timers, conDep, idCounter, lastTurn,
                   aiTurnsFor>>

(* Saves written by handleSaveGame during play *)

SavedState(customChoicesRemaining) ==
    [InitialGameState EXCEPT
        !.phase = "playing",
        !.history = <<[isUserTurn |-> TRUE, text |-> "Begin the adventure.",
                       rollResult |-> None, levelUpEvent |-> None],
                      [isUserTurn |-> FALSE, text |-> "story",
                       statsUpdated |-> <<>>, inventoryAdded |-> <<>>,
                       inventoryRemoved |-> <<>>, rollResult |-> None,
                       levelUpEvent |-> None]>>,
        !.stats = BuilderBase,
        !.hpHistory = <<BASE_HP, BASE_HP>>,
        !.customChoicesRemaining = customChoicesRemaining]

(* a save of an older version: gameState without npcs, no settings *)
WithoutNpcs(gs) == [f \in DOMAIN gs \ {"npcs"} |-> gs[f]]

SaveFiles ==
    {SaveFile("error", None, None, None),
     SaveFile("null", None, None, None),
     SaveFile("object", None, Some(StandardChoices), None),
     SaveFile("object", Some(SavedState(1)), None, Some(InitialSettings)),
     SaveFile("object", Some(WithoutNpcs(SavedState(3))), Some(StandardChoices),
              None),
     SaveFile("object",
              Some([SavedState(1) EXCEPT
                      !.npcs = <<[id |-> 1, name |-> "Bob", type |-> "Friendly",
                                  condition |-> "Healthy"]>>]),
              Some(StandardChoices),
              Some([storyModel |-> "fast", enableDiceRolls |-> TRUE]))}

(* Responses during play: with and without the result of a heroic action *)
ActionResult(stat, is_success) ==
    [stat |-> stat, is_success |-> is_success, total |-> 15,
     difficulty |-> IF is_success THEN 12 ELSE 18, base_roll |-> 15]
PlayDeltas == {PlainDelta,
               [PlainDelta EXCEPT !.action_result = Some(ActionResult("STR", TRUE))],
               [PlainDelta EXCEPT !.action_result = Some(ActionResult("STR", FALSE))]}

(* Loading at any moment of a short game *)
NextLoad ==
    \/ handleNewGame
    \/ handleGenreSelect
    \/ handleStatsComplete(BuilderBase)
    \/ \E i \in 1..Len(worldGen) : MainStorySettles(i, None)
    \/ \E file \in SaveFiles : handleLoadGame(file)
    \/ \E i \in 1..Len(currentChoices) :
          handleChoiceClick(currentChoices[i], 1, FALSE)
    \/ handleRollComplete
    \/ \E r \in inflight :
          AIResponse(r, [kind |-> "delta", delta |-> PlainDelta], 0)

SpecLoad == Init /\ [][NextLoad]_vars

(* Play from the start of the application or from a save loaded at the     *)
(* start                                                                   *)
InitPlay ==
    /\ \/ gameState = InitialGameState /\ currentChoices = <<>>
       \/ \E left \in {1, INITIAL_CUSTOM_CHOICES} :
             /\ gameState = LoadedState(SavedState(left))
             /\ currentChoices = StandardChoices
    /\ pendingChoice = None
    /\ lastTurnParams = None
    /\ showRetry = FALSE
    /\ requestIdRef = 0
    /\ inflight = {}
    /\ worldGen = <<>>
    /\ timers = 0
    /\ conDep = 10
    /\ idCounter = 0
    /\ lastAction = Step("init")
    /\ lastTurn = 0
    /\ aiTurnsFor = <<>>
    /\ settings = InitialSettings

NextPlay ==
    \/ handleNewGame
    \/ handleGenreSelect
    \/ handleStatsComplete(BuilderBase)
    \/ \E i \in 1..Len(worldGen) : MainStorySettles(i, None)
    \/ \E i \in 1..Len(currentChoices), rollBase \in RollBases,
          eager \in BOOLEAN :
          handleChoiceClick(currentChoices[i], rollBase, eager)
    \/ \E roll \in RollBases :
          handleCustomChoiceSubmit("Heroic deed", "None", roll)
    \/ handleRollComplete
    \/ \E r \in inflight, d \in PlayDeltas :
          AIResponse(r, [kind |-> "delta", delta |-> d], 0)

SpecPlay == InitPlay /\ [][NextPlay]_vars

----------------------------------------------------------------------------
(* parseTextResponse (services/gemini.ts): the reply of a text-mode model  *)
(* is a sequence of lines joined by newlines, without a trailing newline.  *)

MaxTextLines == 3

HeaderLines == {"### NARRATIVE", "### CHOICES", "### UPDATES",
                "### ACTION_RESULT", "### LORE"}
Texts == UNION {[1..n -> (HeaderLines \cup {"A door creaks.",
                                            "1. Open it | STR | 15",
                                            "Wait | NONE", "HP: -5",
                                            "HP: abc", "STATUS: won",
                                            "STATUS: SAME", "ITEM_ADD: Rope",
                                            "STAT: STR", "SUCCESS: true",
                                            "SUCCESS"})] : n \in 0..MaxTextLines}
    \cup {<<"### UPDATES">> \o lines :
            lines \in UNION {[1..n -> {"HP: -5", "ITEM_ADD: Rope",
                                       "ITEM_ADD: None | misc",
                                       "ITEM_REMOVE: Rope",
                                       "ITEM_REMOVE: NONE",
                                       "ITEM_REMOVE: none", "EQUIP: Sword",
                                       "EQUIP: None",
                                       "UNEQUIP: Plate Armor",
                                       "UNEQUIP: NONE",
                                       "EFFECT_ADD: Poison | debuff | 2",
                                       "EFFECT_ADD: none"}] :
                                n \in 1..MaxTextLines}}

(* match[1] of sectionRegex *)
HeaderName(line) ==
    CASE line = "### NARRATIVE" -> "NARRATIVE"
      [] line = "### CHOICES" -> "CHOICES"
      [] line = "### UPDATES" -> "UPDATES"
      [] line = "### ACTION_RESULT" -> "ACTION_RESULT"
      [] line = "### LORE" -> "LORE"
      [] OTHER -> ""

(* line.split(':'): the trimmed part before the first colon and the       *)
(* trimmed part after it, undefined when the line has no colon            *)
LineKey(line) ==
    CASE line \in {"HP: -5", "HP: abc"} -> "HP"
      [] line \in {"STATUS: won", "STATUS: SAME"} -> "STATUS"
      [] line \in {"ITEM_ADD: Rope", "ITEM_ADD: None | misc"} -> "ITEM_ADD"
      [] line \in {"ITEM_REMOVE: Rope", "ITEM_REMOVE: NONE",
                   "ITEM_REMOVE: none"} -> "ITEM_REMOVE"
      [] line \in {"EQUIP: Sword", "EQUIP: None"} -> "EQUIP"
      [] line \in {"UNEQUIP: Plate Armor", "UNEQUIP: NONE"} -> "UNEQUIP"
      [] line \in {"EFFECT_ADD: Poison | debuff | 2", "EFFECT_ADD: none"}
            -> "EFFECT_ADD"
      [] line = "STAT: STR" -> "STAT"
      [] line \in {"SUCCESS: true", "SUCCESS"} -> "SUCCESS"
      [] OTHER -> line

LineValue(line) ==
    CASE line = "HP: -5" -> Some("-5")
      [] line = "HP: abc" -> Some("abc")
      [] line = "STATUS: won" -> Some("won")
      [] line = "STATUS: SAME" -> Some("SAME")
      [] line \in {"ITEM_ADD: Rope", "ITEM_REMOVE: Rope"} -> Some("Rope")
      [] line = "ITEM_ADD: None | misc" -> Some("None | misc")
      [] line \in {"ITEM_REMOVE: NONE", "UNEQUIP: NONE"} -> Some("NONE")
      [] line \in {"ITEM_REMOVE: none", "EFFECT_ADD: none"} -> Some("none")
      [] line = "EQUIP: Sword" -> Some("Sword")
      [] line = "EQUIP: None" -> Some("None")
      [] line = "UNEQUIP: Plate Armor" -> Some("Plate Armor")
      [] line = "EFFECT_ADD: Poison | debuff | 2" -> Some("Poison | debuff | 2")
      [] line = "STAT: STR" -> Some("STR")
      [] line = "SUCCESS: true" -> Some("true")
      [] OTHER -> None

(* value.split('|').map(p => p.trim()): parts[0] and parts[2] *)
FirstPart(value) ==
    CASE value = "None | misc" -> "None"
      [] value = "Poison | debuff | 2" -> "Poison"
      [] OTHER -> value

ThirdPart(value) ==
    IF value = "Poison | debuff | 2" THEN Some("2") ELSE None

(* String.prototype.toUpperCase over the entity names of the replies *)
toUpperCase(str) ==
    CASE str \in {"NONE", "None", "none"} -> "NONE"
      [] str = "Rope" -> "ROPE"
      [] str = "Sword" -> "SWORD"
      [] str = "Plate Armor" -> "PLATE ARMOR"
      [] str = "Poison" -> "POISON"
      [] OTHER -> str

IsNone_ExactCase(name) == name = "NONE"

(* name.toUpperCase() === 'NONE': the line is skipped *)
IsNone(name) == toUpperCase(name) = "NONE"

(* cleanLine.startsWith(key + ':') *)
StartsWithKey(line, key) == LineValue(line) # None /\ LineKey(line) = key

(* parseInt: NaN is the absent number *)
parseInt(str) ==
    CASE str = "-5" -> Some(-5)
      [] str = "15" -> Some(15)
      [] str = "2" -> Some(2)
      [] OTHER -> None

(* One line of the CHOICES section: strip the "1. " prefix, split on '|' *)
ParseChoiceLine(line) ==
    CASE line = "1. Open it | STR | 15" -> Choice("Open it", "STR", parseInt("15"))
      [] line = "Wait | NONE" -> Choice("Wait", "", None)
      [] OTHER -> Choice(line, "", None)

(* Sections found by sectionRegex.  A header opens a section only when a   *)
(* newline follows it; the section runs up to the next "###" header or the *)
(* end; a later section of the same name replaces an earlier one.          *)
SectionStarts(text, name) ==
    {i \in 1..(Len(text) - 1) : HeaderName(text[i]) = name}

SectionEnd(text, i) ==
    LET later == {j \in (i + 1)..Len(text) : text[j] \in HeaderLines}
    IN  IF later = {} THEN Len(text)
        ELSE (CHOOSE j \in later : \A k \in later : j <= k) - 1

(* sections[name]: undefined or empty both read as absent *)
Section(text, name) ==
    LET starts == SectionStarts(text, name)
    IN  IF starts = {} THEN <<>>
        ELSE LET i == CHOOSE i \in starts : \A k \in starts : i >= k
             IN  SubSeq(text, i + 1, SectionEnd(text, i))

RECURSIVE LastValue(_, _, _)
(* the value of the last line of the section that starts with key *)
LastValue(lines, key, default) ==
    IF lines = <<>> THEN default
    ELSE LET last == lines[Len(lines)]
         IN  IF StartsWithKey(last, key) THEN LineValue(last)
             ELSE LastValue(SubSeq(lines, 1, Len(lines) - 1), key, default)

(* val.toLowerCase() on a line "SUCCESS" without a colon: val is undefined *)
ActionResultRaises(lines) ==
    \E i \in 1..Len(lines) :
        LineKey(lines[i]) = "SUCCESS" /\ LineValue(lines[i]) = None

parseTextResponse(text) ==
    LET narrative == Section(text, "NARRATIVE")
        choices == Section(text, "CHOICES")
        updates == Section(text, "UPDATES")
        result == Section(text, "ACTION_RESULT")
        hp == LastValue(updates, "HP", None)
        status == LastValue(updates, "STATUS", None)
        Named(key) ==
            SelectSeq(updates,
                      LAMBDA l : /\ StartsWithKey(l, key)
                                 /\ ~IsNone(FirstPart(LineValue(l)[1])))
        NamesOf(lines) ==
            [i \in 1..Len(lines) |-> FirstPart(LineValue(lines[i])[1])]
        items == Named("ITEM_ADD")
        effects == Named("EFFECT_ADD")
        stat == LastValue(result, "STAT", None)
        success == LastValue(result, "SUCCESS", None)
    IN  IF ActionResultRaises(result) THEN None
        ELSE Some(
          [narrative |-> IF narrative # <<>> THEN narrative ELSE text,
           choices |-> [i \in 1..Len(choices) |-> ParseChoiceLine(choices[i])],
           game_status |-> IF status \in {Some("won"), Some("lost")}
                           THEN status[1] ELSE "ongoing",
           hp_change |-> IF hp # None /\ parseInt(hp[1]) # None
                         THEN parseInt(hp[1])[1] ELSE 0,
           inventory_added |-> [i \in 1..Len(items) |->
                                   [name |-> NamesOf(items)[i]]],
           inventory_removed |-> NamesOf(Named("ITEM_REMOVE")),
           equipment_update |-> [equip |-> NamesOf(Named("EQUIP")),
                                 unequip |-> NamesOf(Named("UNEQUIP"))],
           new_effects |->
               [i \in 1..Len(effects) |->
                   LET duration == ThirdPart(LineValue(effects[i])[1])
                   IN  [name |-> NamesOf(effects)[i], type |-> "debuff",
                        duration |-> IF duration # None
                                        /\ parseInt(duration[1]) # None
                                        /\ parseInt(duration[1])[1] # 0
                                     THEN parseInt(duration[1])[1] ELSE 3]],
           action_result |->
               IF stat # None
               THEN Some([stat |-> stat[1],
                          is_success |-> IF success = None THEN None
                                         ELSE Some(success[1] = "true")])
               ELSE None])

ParseStep(text) ==
    /\ lastAction = [Step("textReceived") EXCEPT !.text = text]
    /\ lastAction' = [Step("parseTextResponse") EXCEPT
                         !.text = text,
                         !.outcome = IF parseTextResponse(text) = None
                                     THEN "raised" ELSE "returned",
                         !.delta = parseTextResponse(text)]
    /\ UNCHANGED <<gameState, currentChoices, pendingChoice, lastTurnParams,
                   showRetry, requestIdRef, inflight, worldGen, timers, conDep,
                   idCounter, lastTurn, aiTurnsFor, settings>>

(* The reply to parse is drawn at the start *)
InitParse ==
    /\ gameState = InitialGameState
    /\ currentChoices = <<>>
    /\ pendingChoice = None
    /\ lastTurnParams = None
    /\ showRetry = FALSE
    /\ requestIdRef = 0
    /\ inflight = {}
    /\ worldGen = <<>>
    /\ timers = 0
    /\ conDep = 10
    /\ idCounter = 0
    /\ \E text \in Texts :
          lastAction = [Step("textReceived") EXCEPT !.text = text]
    /\ lastTurn = 0
    /\ aiTurnsFor = <<>>
    /\ settings = InitialSettings

NextParse == ParseStep(lastAction.text)

SpecParse == InitParse /\ [][NextParse]_vars

----------------------------------------------------------------------------
(* Hit points under changes of the effective CON: wounds, a status effect  *)
(* that lowers CON and expires, a stats_update, heavy armor put on and     *)
(* taken off.                                                              *)

DrainDelta == [QuietDelta EXCEPT !.stats_update = [s \in {"CON"} |-> -2]]

VitalDeltas ==
    {QuietDelta,
     [QuietDelta EXCEPT !.hp_change = -99],
     [QuietDelta EXCEPT !.new_effects =
         <<[name |-> "Withered", duration |-> 2,
            statModifiers |-> [ZeroStats EXCEPT !["CON"] = -12],
            blocksHeroicActions |-> FALSE]>>],
     DrainDelta}

InitVitals ==
    LET params == TurnParams("Talk", None, None, None, <<>>)
    IN  /\ gameState = [PlayingState(10, BASE_HP) EXCEPT
                            !.inventory = <<createItemFromString("Plate Armor", 1)>>]
        /\ currentChoices = TalkChoices
        /\ pendingChoice = None
        /\ lastTurnParams = Some(params)
        /\ showRetry = FALSE
        /\ requestIdRef = 1
        /\ inflight = {Request(1, 1, params)}
        /\ worldGen = <<>>
        /\ timers = 0
        /\ conDep = 10
        /\ idCounter = 1
        /\ lastAction = Step("init")
        /\ lastTurn = 1
        /\ aiTurnsFor = <<0>>
        /\ settings = InitialSettings

NextVitals ==
    \/ useEffectMaxHp
    \/ \E i \in 1..Len(gameState.inventory) :
          /\ SidebarsShown
          /\ SlotOf(gameState.inventory[i]) # ""
          /\ handleEquip(gameState.inventory[i])
    \/ \E i \in 1..Len(EquippedItems(gameState)) :
          SidebarsShown /\ handleUnequip(EquippedItems(gameState)[i])
    \/ \E i \in 1..Len(currentChoices) :
          handleChoiceClick(currentChoices[i], 1, FALSE)
    \/ \E r \in inflight, d \in VitalDeltas :
          AIResponse(r, [kind |-> "delta", delta |-> d], 0)
    \/ GameOverTimer

SpecVitals == InitVitals /\ [][NextVitals]_vars

----------------------------------------------------------------------------
(* Base stats under stats_update: requested changes inside and outside     *)
(* the clamp, alone or together with the result of a heroic action.  STR   *)
(* starts at 10, as StatBuilder hands it over, or at 1, where four earlier *)
(* responses with STR -2 leave a STR of 9.                                 *)

StatDeltas ==
    {[QuietDelta EXCEPT !.stats_update = [s \in {"STR"} |-> v],
                        !.action_result = ar] :
        v \in {-5, -2, -1, 0, 3, 5, 9},
        ar \in {None, Some(ActionResult("STR", TRUE))}}
    \cup {QuietDelta,
          [QuietDelta EXCEPT !.stats_update = [s \in {"STR", "INT"} |->
                                                 IF s = "STR" THEN 9 ELSE -5]]}

InitStats ==
    \E str \in {1, 10}, exp \in {0, 2} :
        LET params == TurnParams("Talk", None, None, None, <<>>)
        IN  /\ gameState = [PlayingState(10, BASE_HP) EXCEPT
                                !.stats["STR"] = str,
                                !.statExperience["STR"] = exp]
            /\ currentChoices = TalkChoices
            /\ pendingChoice = None
            /\ lastTurnParams = Some(params)
            /\ showRetry = FALSE
            /\ requestIdRef = 1
            /\ inflight = {Request(1, 1, params)}
            /\ worldGen = <<>>
            /\ timers = 0
            /\ conDep = 10
            /\ idCounter = 0
            /\ lastAction = Step("init")
            /\ lastTurn = 1
            /\ aiTurnsFor = <<0>>
            /\ settings = InitialSettings

NextStats ==
    \/ \E i \in 1..Len(currentChoices) :
          handleChoiceClick(currentChoices[i], 1, FALSE)
    \/ \E r \in inflight, d \in StatDeltas :
          AIResponse(r, [kind |-> "delta", delta |-> d], 0)

SpecStats == InitStats /\ [][NextStats]_vars

----------------------------------------------------------------------------
(* Status effects over issued, stopped, failed, retried and answered       *)
(* turns: the first turn is in flight and has left the effect "Blessed"    *)
(* with 2 turns; a response may add "Slowed" for 2 turns.                  *)

Effect(name, duration) ==
    [name |-> name, duration |-> duration, statModifiers |-> ZeroStats,
     blocksHeroicActions |-> FALSE]

EffectOutcomes ==
    {[kind |-> "delta", delta |-> d] :
        d \in {QuietDelta,
               [QuietDelta EXCEPT !.new_effects = <<Effect("Slowed", 2)>>]}}
    \cup {[kind |-> "malformed", delta |-> EmptyDelta]}

InitEffects ==
    LET blessed == [id |-> 1] @@ Effect("Blessed", 2)
        params == TurnParams("Talk", None, None, None, <<blessed>>)
    IN  /\ gameState = [PlayingState(10, BASE_HP) EXCEPT
                            !.activeEffects = <<blessed>>]
        /\ currentChoices = TalkChoices
        /\ pendingChoice = None
        /\ lastTurnParams = Some(params)
        /\ showRetry = FALSE
        /\ requestIdRef = 1
        /\ inflight = {Request(1, 1, params)}
        /\ worldGen = <<>>
        /\ timers = 0
        /\ conDep = 10
        /\ idCounter = 1
        /\ lastAction = Step("init")
        /\ lastTurn = 1
        /\ aiTurnsFor = <<0>>
        /\ settings = InitialSettings

NextEffects ==
    \/ \E i \in 1..Len(currentChoices) :
          handleChoiceClick(currentChoices[i], 1, FALSE)
    \/ \E roll \in RollBases :
          handleCustomChoiceSubmit("Heroic deed", "None", roll)
    \/ (StoryFeedShown /\ handleStopRequest)
    \/ (StoryFeedShown /\ handleRetryRequest)
    \/ \E r \in inflight, outcome \in EffectOutcomes :
          AIResponse(r, outcome, 0)

SpecEffects == InitEffects /\ [][NextEffects]_vars

(* The same play when every awaited generateStoryStep call settles: the    *)
(* promise of a request in flight resolves, to a usable or to an unusable  *)
(* value.                                                                  *)
SpecTurns ==
    /\ SpecEffects
    /\ WF_vars(\E r \in inflight, outcome \in EffectOutcomes :
                  AIResponse(r, outcome, 0))

----------------------------------------------------------------------------
(* The NPC list under add / update / remove directives, from a game that   *)
(* has met nobody yet.                                                     *)

NpcSeen(name) == [name |-> name, type |-> "Friendly", condition |-> "Healthy"]

NpcDeltas ==
    {QuietDelta,
     [QuietDelta EXCEPT !.npcs_update.add = <<NpcSeen("Bob")>>],
     [QuietDelta EXCEPT !.npcs_update.add = <<NpcSeen("BOB")>>],
     [QuietDelta EXCEPT !.npcs_update.add = <<NpcSeen("Eve")>>],
     [QuietDelta EXCEPT !.npcs_update.update =
         <<[name |-> "BOB", condition |-> "Injured", status |-> "Hostile"]>>],
     [QuietDelta EXCEPT !.npcs_update.remove = <<"Bob">>]}

NextNpcs ==
    \/ \E i \in 1..Len(currentChoices) :
          handleChoiceClick(currentChoices[i], 1, FALSE)
    \/ \E r \in inflight, d \in NpcDeltas :
          AIResponse(r, [kind |-> "delta", delta |-> d], 0)

SpecNpcs == InitVitals /\ [][NextNpcs]_vars

----------------------------------------------------------------------------
(* Standard checks: choices with a stat and a difficulty, clicked with a   *)
(* sword (STR +1) in the bag or in hand and the effect "Weakened" (STR -2) *)
(* running for one more turn; STR as StatBuilder hands it over.            *)

CheckChoices == <<Choice("*Attack*", "STR", Some(12)), Choice("Lift", "STR", Some(10))>>

InitChecks ==
    \E str \in {9, 10, 12} :
        LET weakened == [id |-> 2, name |-> "Weakened", duration |-> 1,
                         statModifiers |-> [ZeroStats EXCEPT !["STR"] = -2],
                         blocksHeroicActions |-> FALSE]
            params == TurnParams("Talk", None, None, None, <<weakened>>)
        IN  /\ gameState = [PlayingState(10, BASE_HP) EXCEPT
                                !.stats["STR"] = str,
                                !.inventory = <<createItemFromString("Sword", 1)>>,
                                !.activeEffects = <<weakened>>]
            /\ currentChoices = CheckChoices
            /\ pendingChoice = None
            /\ lastTurnParams = Some(params)
            /\ showRetry = FALSE
            /\ requestIdRef = 1
            /\ inflight = {Request(1, 1, params)}
            /\ worldGen = <<>>
            /\ timers = 0
            /\ conDep = 10
            /\ idCounter = 2
            /\ lastAction = Step("init")
            /\ lastTurn = 1
            /\ aiTurnsFor = <<0>>
            /\ settings = InitialSettings

NextChecks ==
    \/ \E i \in 1..Len(gameState.inventory) :
          /\ SidebarsShown
          /\ SlotOf(gameState.inventory[i]) # ""
          /\ handleEquip(gameState.inventory[i])
    \/ \E i \in 1..Len(EquippedItems(gameState)) :
          SidebarsShown /\ handleUnequip(EquippedItems(gameState)[i])
    \/ \E i \in 1..Len(currentChoices), rollBase \in {1, 12, 13, 20},
          eager \in BOOLEAN :
          handleChoiceClick(currentChoices[i], rollBase, eager)
    \/ handleRollComplete
    \/ \E r \in inflight :
          AIResponse(r,
                     [kind |-> "delta",
                      delta |-> [QuietDelta EXCEPT !.choices = CheckChoices]],
                     0)

SpecChecks == InitChecks /\ [][NextChecks]_vars

----------------------------------------------------------------------------
(* Maximum HP under changes of the effective CON at full and at partial    *)
(* hp: a wound, a stats_update on CON, a debuff that takes the effective   *)
(* CON below -10 for one turn, heavy armor put on and taken off.           *)

MaxHpDeltas ==
    {QuietDelta,
     [QuietDelta EXCEPT !.hp_change = -65],
     DrainDelta,
     [QuietDelta EXCEPT !.new_effects =
         <<[Effect("Hexed", 1) EXCEPT
               !.statModifiers = [ZeroStats EXCEPT !["CON"] = -24]]>>]}

NextMaxHp ==
    \/ useEffectMaxHp
    \/ \E i \in 1..Len(gameState.inventory) :
          /\ SidebarsShown
          /\ SlotOf(gameState.inventory[i]) # ""
          /\ handleEquip(gameState.inventory[i])
    \/ \E i \in 1..Len(EquippedItems(gameState)) :
          SidebarsShown /\ handleUnequip(EquippedItems(gameState)[i])
    \/ \E i \in 1..Len(currentChoices) :
          handleChoiceClick(currentChoices[i], 1, FALSE)
    \/ \E r \in inflight, d \in MaxHpDeltas :
          AIResponse(r, [kind |-> "delta", delta |-> d], 0)

SpecMaxHp == InitVitals /\ [][NextMaxHp]_vars

----------------------------------------------------------------------------
(* Gear put on and taken off with two weapons, an armor and an accessory   *)
(* in the bag and a debuff on STR and DEX, to compare the preview of an    *)
(* item with the stats after equipping it.                                 *)

InitPreview ==
    LET weakened == [id |-> 5, name |-> "Weakened", duration |-> 2,
                     statModifiers |->
                         [ZeroStats EXCEPT !["STR"] = -2, !["DEX"] = -1],
                     blocksHeroicActions |-> FALSE]
        params == TurnParams("Talk", None, None, None, <<weakened>>)
    IN  /\ gameState =
              [PlayingState(10, BASE_HP) EXCEPT
                  !.inventory = <<createItemFromString("Sword", 1),
                                  createItemFromString("Dagger", 2),
                                  createItemFromString("Plate Armor", 3),
                                  createItemFromString("Ring of Health", 4)>>,
                  !.activeEffects = <<weakened>>]
        /\ currentChoices = TalkChoices
        /\ pendingChoice = None
        /\ lastTurnParams = Some(params)
        /\ showRetry = FALSE
        /\ requestIdRef = 1
        /\ inflight = {Request(1, 1, params)}
        /\ worldGen = <<>>
        /\ timers = 0
        /\ conDep = 10
        /\ idCounter = 5
        /\ lastAction = Step("init")
        /\ lastTurn = 1
        /\ aiTurnsFor = <<0>>
        /\ settings = InitialSettings

SpecPreview == InitPreview /\ [][NextDirectives]_vars

----------------------------------------------------------------------------
(* Properties *)

IsResponseStep(step) == step.name = "aiResponse"
IsApplied(step) == step.name = "aiResponse" /\ step.outcome = "applied"
IssuingSteps == {"MainStorySettles", "handleChoiceClick",
                 "handleCustomChoiceSubmit", "handleRetryRequest",
                 "handleStopRequest"}
Clamp(x, lo, hi) == IF x < lo THEN lo ELSE IF x > hi THEN hi ELSE x

UserTurnsOf(history) == SelectSeq(history, LAMBDA t : t.isUserTurn)
LastUserTurn(history) == UserTurnsOf(history)[Len(UserTurnsOf(history))]

\* C1: a response of generateAndProcessAIResponse, success or error, whose
\* request id differs from requestIdRef.current when it arrives changes
\* nothing (game state, choices, retry flag, timers); hence after "issue A,
\* Stop, issue B" the state is the one B's response produces, whichever
\* response arrives first.
C1_StaleResponseChangesNothing ==
    [][(IsResponseStep(lastAction') /\ lastAction'.req # requestIdRef)
        => UNCHANGED <<gameState, currentChoices, showRetry, lastTurnParams,
                       pendingChoice, timers, requestIdRef, idCounter>>]_vars

C1_Witness ==
    /\ IsResponseStep(lastAction)
    /\ lastAction.outcome = "discarded"
    /\ lastAction.req = 1
    /\ requestIdRef = 3
    /\ lastTurn = 2
    /\ aiTurnsFor = <<0, 1>>
    /\ inflight = {}

\* C2: for every user turn appended by processTurn at most one AI turn is
\* ever appended to history, whatever Stop, Retry, choice clicks and
\* response arrivals follow.
C2_AtMostOneAiTurnPerUserTurn ==
    \A t \in 1..Len(aiTurnsFor) : aiTurnsFor[t] <= 1

\* C3: requestIdRef.current never decreases; every request issued (turn or
\* retry) carries an id above every earlier one; processTurn, Retry and
\* Stop each strictly advance the current id; at most one outstanding
\* request carries the current id.
C3_RequestIdsStrictlyIncrease ==
    [][/\ requestIdRef' >= requestIdRef
       /\ \A r \in inflight' \ inflight :
              /\ r.id = requestIdRef'
              /\ r.id > requestIdRef
              /\ \A q \in inflight : r.id > q.id
       /\ (lastAction'.name \in IssuingSteps => requestIdRef' > requestIdRef)
       /\ Cardinality({r \in inflight' : r.id = requestIdRef'}) <= 1]_vars

C3_Witness ==
    /\ lastAction.name = "handleRetryRequest"
    /\ requestIdRef = 3
    /\ Cardinality(inflight) = 2
    /\ Cardinality({r \in inflight : r.id = requestIdRef}) = 1

\* C4: Stop acts in one step without waiting for the AI call: it advances
\* the current id, clears isLoading and sets the retry flag, leaves history,
\* hp, inventory, equipped, stats, statExperience, activeEffects and npcs
\* (and the outstanding calls) as they are, and is enabled whenever a
\* request is outstanding.
C4_StopIsImmediate ==
    /\ []((inflight # {} /\ requestIdRef < MaxRequestId)
            => ENABLED handleStopRequest)
    /\ [][lastAction'.name = "handleStopRequest"
            => /\ requestIdRef' > requestIdRef
               /\ ~gameState'.isLoading
               /\ showRetry'
               /\ inflight' = inflight
               /\ gameState' = [gameState EXCEPT !.isLoading = FALSE]]_vars

C4_Witness ==
    /\ lastAction.name = "handleStopRequest"
    /\ \E r \in inflight : r.id = requestIdRef - 1
    /\ showRetry
    /\ ~gameState.isLoading

\* C5: when the AI call of the still-current request fails (transport or
\* parse error) the controller shows the retryable failure (isLoading
\* false, showRetry true) and applies nothing: no AI turn, no hp,
\* inventory, stats, effect or status change.
C5_FailureAppliesNothing ==
    [][(/\ IsResponseStep(lastAction')
        /\ lastAction'.req = requestIdRef
        /\ lastAction'.kind \in {"transport", "parse"})
        => /\ showRetry'
           /\ gameState' = [gameState EXCEPT !.isLoading = FALSE]
           /\ currentChoices' = currentChoices]_vars

\* C6: after a successful response of the still-current request has been
\* reconciled, isLoading and showRetry are both false, whatever Stop, Retry
\* or new turns came before.
C6_SuccessClearsLoadingAndRetry ==
    (IsApplied(lastAction) /\ lastAction.kind = "delta")
        => (~gameState.isLoading /\ ~showRetry)

\* C7: Retry issues a request under a new, larger id whose parameters
\* (user text, roll result, custom action, arc override, decremented
\* effects) are those recorded by the most recent processTurn; with no
\* turn issued yet it does nothing.
C7_RetryReplaysLastTurn ==
    /\ [](lastTurnParams = None => ~ENABLED handleRetryRequest)
    /\ [][lastAction'.name = "handleRetryRequest"
            => \E r \in inflight' \ inflight :
                 /\ r.id = requestIdRef'
                 /\ r.id > requestIdRef
                 /\ Some(r.params) = lastTurnParams
                 /\ lastTurnParams' = lastTurnParams
                 /\ LastUserTurn(gameState.history).text
                        = StripAsterisks(r.params.userText)
                 /\ LastUserTurn(gameState.history).rollResult
                        = r.params.rollResult
                 /\ \A q \in inflight :
                        q.turn = r.turn => q.params = r.params]_vars

C7_Witness ==
    /\ lastAction.name = "handleRetryRequest"
    /\ lastTurnParams # None
    /\ lastTurnParams[1].rollResult # None
    /\ \E r \in inflight : r.id = requestIdRef /\ r.params.rollResult # None

\* C8: from any state with 0 <= hp <= maxHp and for any integer hp_change,
\* the reconcile step yields hp = clamp(hp + hp_change, 0, maxHp), so
\* 0 <= hp <= maxHp afterwards.
C8_HpStaysInBounds ==
    [][(IsApplied(lastAction') /\ 0 <= gameState.hp
            /\ gameState.hp <= gameState.maxHp)
        => /\ gameState'.hp = Clamp(gameState.hp + lastAction'.delta[1].hp_change,
                                    0, gameState.maxHp)
           /\ 0 <= gameState'.hp
           /\ gameState'.hp <= gameState'.maxHp]_vars

C8_Witness ==
    /\ IsApplied(lastAction)
    /\ lastAction.delta[1].hp_change = 60
    /\ gameState.hpHistory[2] = 90
    /\ gameState.maxHp = 110
    /\ gameState.hp = 110

\* C9: a reconciled delta that brings hp to 0 leaves hp = 0 and
\* gameStatus = 'lost', whatever game_status the delta carried.
C9_DeathForcesLost ==
    [][(IsApplied(lastAction')
            /\ gameState.hp + lastAction'.delta[1].hp_change <= 0)
        => (gameState'.hp = 0 /\ gameState'.gameStatus = "lost")]_vars

C9_Witness ==
    /\ IsApplied(lastAction)
    /\ lastAction.delta[1].hp_change = -MaxHpChange
    /\ lastAction.delta[1].game_status = "won"
    /\ gameState.hpHistory[2] = 40
    /\ gameState.maxHp = 100
    /\ gameState.hp = 0
    /\ gameState.gameStatus = "lost"

\* C10: within one game gameStatus is monotonic: once 'won' or 'lost', no
\* later event sets it back to 'ongoing'.
C10_StatusNeverRevertsToOngoing ==
    [][gameState.gameStatus # "ongoing"
        => gameState'.gameStatus # "ongoing"]_vars

ItemIds(items) == {items[i].id : i \in 1..Len(items)}

\* C11: wherever reconcile, handleEquip, handleUnequip and handleDiscard
\* lead, the inventory holds at most 8 items (equipped items do not
\* count), and handleUnequip changes nothing when the inventory already
\* holds 8 items.
C11_InventoryNeverExceedsCap ==
    [][/\ Len(gameState.inventory) <= INVENTORY_CAP
       /\ Len(gameState'.inventory) <= INVENTORY_CAP
       /\ (lastAction'.name = "handleUnequip"
              /\ Len(gameState.inventory) = INVENTORY_CAP)
            => gameState' = gameState]_vars

C11_Witness ==
    /\ lastAction.name = "handleUnequip"
    /\ Len(gameState.inventory) = INVENTORY_CAP
    /\ gameState.inventory[INVENTORY_CAP].type = "misc"
    /\ gameState.equipped.weapon # None

\* C12: wherever reconcile, handleEquip of an item of the inventory,
\* handleUnequip and handleDiscard lead, no item id is both in the
\* inventory and in an equipped slot, and no item id occupies two slots.
C12_EquippedAndInventoryDisjoint ==
    /\ ItemIds(gameState.inventory) \cap ItemIds(EquippedItems(gameState)) = {}
    /\ Cardinality(ItemIds(EquippedItems(gameState)))
           = Len(EquippedItems(gameState))

C12_Witness ==
    /\ lastAction.name = "handleEquip"
    /\ gameState.equipped.weapon # None
    /\ gameState.equipped.armor # None
    /\ \E i \in 1..Len(gameState.inventory) :
           gameState.inventory[i].type = "weapon"

\* C13: in every state of a game (the gameplay screen is up) the experience
\* counter of every stat axis is a number in 0..EXP_THRESHOLD-1, whichever
\* path awarded the experience (standard check or action_result).
C13_StatExperienceInRange ==
    gameState.phase \in {"playing", "game_over"}
        => \A s \in StatTypes :
              /\ s \in DOMAIN gameState.statExperience
              /\ gameState.statExperience[s] \in 0..(EXP_THRESHOLD - 1)

(* successful checks on stat s recorded in the history: standard checks on
   the user turn, heroic actions on the AI turn *)
Successes(history, s) ==
    Cardinality({i \in 1..Len(history) :
        /\ history[i].rollResult # None
        /\ history[i].rollResult[1].statType = s
        /\ history[i].rollResult[1].isSuccess})

LevelUpEvents(history) ==
    {history[i].levelUpEvent[1] :
        i \in {j \in 1..Len(history) : history[j].levelUpEvent # None}}

IsEmptyDelta(d) ==
    /\ d.inventory_added = <<>> /\ d.inventory_removed = <<>>
    /\ d.hp_change = 0 /\ d.stats_update = <<>> /\ d.new_effects = <<>>
    /\ d.npcs_update = [add |-> <<>>, update |-> <<>>, remove |-> <<>>]
    /\ d.quest_update = "" /\ d.action_result = None
    /\ d.equipment_update = [equip |-> <<>>, unequip |-> <<>>]

ValidOngoing(gs) ==
    /\ gs.gameStatus = "ongoing"
    /\ 0 < gs.hp /\ gs.hp <= gs.maxHp
    /\ Len(gs.inventory) <= INVENTORY_CAP
    /\ ItemIds(gs.inventory) \cap ItemIds(EquippedItems(gs)) = {}

\* C15: reconciling a delta that carries no item, removal, hp change,
\* stats_update, effect, NPC change, quest update or action_result against
\* a valid ongoing state leaves stats, statExperience, inventory, equipped,
\* hp, maxHp, activeEffects, npcs and currentQuest as they were; history
\* grows by one AI turn and hpHistory by one snapshot.
C15_EmptyDeltaChangesOnlyHistory ==
    [][(/\ IsApplied(lastAction')
        /\ IsEmptyDelta(lastAction'.delta[1])
        /\ ValidOngoing(gameState))
        => /\ gameState'.stats = gameState.stats
           /\ gameState'.statExperience = gameState.statExperience
           /\ gameState'.inventory = gameState.inventory
           /\ gameState'.equipped = gameState.equipped
           /\ gameState'.hp = gameState.hp
           /\ gameState'.maxHp = gameState.maxHp
           /\ gameState'.activeEffects = gameState.activeEffects
           /\ gameState'.npcs = gameState.npcs
           /\ gameState'.currentQuest = gameState.currentQuest
           /\ Len(gameState'.history) = Len(gameState.history) + 1
           /\ SubSeq(gameState'.history, 1, Len(gameState.history))
                  = gameState.history
           /\ ~gameState'.history[Len(gameState'.history)].isUserTurn
           /\ gameState'.hpHistory = Append(gameState.hpHistory, gameState.hp)]_vars

C15_Witness ==
    /\ IsApplied(lastAction)
    /\ lastAction.delta = Some(EmptyDelta)
    /\ Len(gameState.inventory) = INVENTORY_CAP - 1
    /\ gameState.equipped.weapon # None
    /\ gameState.currentQuest = "Find the key"
    /\ Len(gameState.activeEffects) = 1
    /\ Len(gameState.npcs) = 1
    /\ Len(gameState.history) = 2

\* C16: the budget of heroic actions is 3 when the application starts and
\* after handleNewGame; each heroic action that is issued lowers it by
\* exactly 1 and issues a turn; no other step of a game changes it; it is
\* never negative; at 0 handleCustomChoiceSubmit issues no turn.
C16_HeroicBudgetOnlyDecreases ==
    /\ [](gameState.customChoicesRemaining >= 0)
    /\ [](gameState.customChoicesRemaining <= 0
            => \A roll \in RollBases :
                 ~ENABLED handleCustomChoiceSubmit("Heroic deed", "None", roll))
    /\ [][/\ (lastAction'.name = "handleNewGame"
                => gameState'.customChoicesRemaining = INITIAL_CUSTOM_CHOICES)
           /\ (lastAction'.name = "handleCustomChoiceSubmit"
                => /\ gameState'.customChoicesRemaining
                        = gameState.customChoicesRemaining - 1
                   /\ requestIdRef' > requestIdRef
                   /\ lastTurn' = lastTurn + 1)
           /\ (lastAction'.name \notin {"handleNewGame", "handleCustomChoiceSubmit"}
                => gameState'.customChoicesRemaining
                     = gameState.customChoicesRemaining)]_vars

C16_Witness ==
    /\ gameState.customChoicesRemaining = 0
    /\ gameState.phase = "playing"
    /\ ~gameState.isLoading
    /\ ~isHeroicBlocked
    /\ requestIdRef < MaxRequestId
    /\ IsApplied(lastAction)

\* C17: parseTextResponse returns a delta for every text, never raising,
\* and what the text does not supply takes its default: the narrative is
\* the raw text unless a NARRATIVE section is present, choices are empty
\* unless a CHOICES section is present, hp_change is 0 unless an HP line
\* carries a number, game_status is 'ongoing' unless a STATUS line says
\* 'won' or 'lost'.
C17_ParseTextResponseIsTotal ==
    lastAction.name = "parseTextResponse"
        => /\ lastAction.outcome = "returned"
           /\ lastAction.delta # None
           /\ LET text == lastAction.text
                   r == lastAction.delta[1]
               IN  /\ (~Includes(text, "### NARRATIVE") => r.narrative = text)
                   /\ (~Includes(text, "### CHOICES") => r.choices = <<>>)
                   /\ (~Includes(text, "HP: -5") => r.hp_change = 0)
                   /\ r.game_status \in {"ongoing", "won", "lost"}
                   /\ (~Includes(text, "STATUS: won")
                          => r.game_status = "ongoing")

\* C18: loading a file that is not valid JSON or lacks gameState or
\* currentChoices surfaces an error and leaves gameState, currentChoices
\* and settings exactly as they were; a valid save replaces gameState as
\* a whole (npcs read as [] when the save has none) together with
\* currentChoices, and settings when the save carries them.
C18_LoadIsAllOrNothing ==
    [][lastAction'.name = "handleLoadGame"
        => LET file == lastAction'.delta[1]
           IN  IF \/ file.parse # "object"
                  \/ file.gameState = None
                  \/ file.currentChoices = None
               THEN /\ lastAction'.outcome = "alert"
                    /\ UNCHANGED <<gameState, currentChoices, settings>>
               ELSE LET saved == file.gameState[1]
                    IN  /\ lastAction'.outcome = "loaded"
                        /\ DOMAIN gameState' = DOMAIN saved \cup {"npcs"}
                        /\ \A f \in DOMAIN saved \ {"npcs"} :
                              gameState'[f] = saved[f]
                        /\ gameState'.npcs = IF "npcs" \in DOMAIN saved
                                             THEN saved.npcs ELSE <<>>
                        /\ currentChoices' = file.currentChoices[1]
                        /\ settings' = IF file.settings = None THEN settings
                                       ELSE file.settings[1]]_vars

C18_Witness ==
    /\ lastAction.name = "handleLoadGame"
    /\ lastAction.outcome = "loaded"
    /\ "npcs" \notin DOMAIN lastAction.delta[1].gameState[1]
    /\ gameState.npcs = <<>>
    /\ gameState.customChoicesRemaining = INITIAL_CUSTOM_CHOICES
    /\ Len(gameState.history) = 2
    /\ requestIdRef = 2
    /\ settings.storyModel = "fast"

\* C19: in every state of a game hp = 0 implies gameStatus = 'lost', also
\* after the max-HP recompute has rescaled hp following an equip, an
\* unequip, the expiry of an effect or a stat change.
C19_ZeroHpMeansLost ==
    gameState.hp = 0 => gameState.gameStatus = "lost"

ItemNames(items) == [i \in 1..Len(items) |-> items[i].name]

AddedNames(d) == [i \in 1..Len(d.inventory_added) |-> d.inventory_added[i].name]

NamedIn(names, name) ==
    \E k \in 1..Len(names) : toLowerCase(names[k]) = toLowerCase(name)

FirstEight(seq) == SubSeq(seq, 1, IF Len(seq) < 8 THEN Len(seq) ELSE 8)

\* C20: the inventory after reconcile is the first 8 entries of the existing
\* inventory followed by the added items in delta order, with the removed
\* names filtered out before the cap: the kept old items stay as they are and
\* in their order, a removal frees a slot for an item added by the same
\* delta, and with 8 items, 2 additions and no removal the inventory does not
\* change.
C20_RemovalThenCap ==
    [][IsApplied(lastAction')
        => LET d == lastAction'.delta[1]
               old == gameState.inventory
               keptOld == SelectSeq(old,
                              LAMBDA item : ~NamedIn(d.inventory_removed, item.name))
               keptNew == SelectSeq(AddedNames(d),
                              LAMBDA name : ~NamedIn(d.inventory_removed, name))
               new == gameState'.inventory
           IN  /\ ItemNames(new) = FirstEight(ItemNames(keptOld) \o keptNew)
               /\ SubSeq(new, 1, Len(keptOld)) = keptOld
               /\ (Len(old) = 8 /\ d.inventory_removed = <<>>) => new = old]_vars

C20_Witness ==
    /\ IsApplied(lastAction)
    /\ lastAction.delta = Some(SwapDelta)
    /\ Len(gameState.inventory) = 8
    /\ gameState.inventory[7].name = "Map"
    /\ gameState.inventory[8].name = "Key"

Requested(d, s) == IF s \in DOMAIN d.stats_update THEN d.stats_update[s] ELSE 0

LastTurnOf(gs) == gs.history[Len(gs.history)]

LevelUpOn(turn, s) ==
    IF turn.levelUpEvent # None /\ turn.levelUpEvent[1].stat = s THEN 1 ELSE 0

\* C21: one reconcile changes the base stat of every axis by the requested
\* stats_update clamped to -2..+5 (next to the +1 of a level-up the same
\* response may earn on that axis); the resulting value is not clamped; an
\* axis whose clamped change is 0 keeps its value and is absent from the
\* statsUpdated annotation of the turn, the other axes are annotated with
\* the clamped change.
C21_StatsUpdateIsClampedDelta ==
    [][IsApplied(lastAction')
        => \A s \in DOMAIN gameState.stats :
              LET change == Clamp(Requested(lastAction'.delta[1], s), -2, 5)
                  turn == LastTurnOf(gameState')
              IN  /\ gameState'.stats[s]
                        = gameState.stats[s] + change + LevelUpOn(turn, s)
                  /\ change = 0 => s \notin DOMAIN turn.statsUpdated
                  /\ change # 0 => /\ s \in DOMAIN turn.statsUpdated
                                   /\ turn.statsUpdated[s] = change]_vars

C21_Witness ==
    /\ IsApplied(lastAction)
    /\ Requested(lastAction.delta[1], "STR") = 9
    /\ Requested(lastAction.delta[1], "INT") = -5
    /\ gameState.stats["STR"] = 25
    /\ gameState.stats["INT"] = 8
    /\ LastTurnOf(gameState).statsUpdated = [s \in {"STR", "INT"} |->
                                               IF s = "STR" THEN 5 ELSE -2]

\* C22: in every state of a game every base stat that stats holds is an
\* integer >= 1, whatever deltas were reconciled and whatever level-ups
\* happened.
C22_BaseStatsAtLeastOne ==
    gameState.phase \in {"playing", "game_over"}
        => \A s \in DOMAIN gameState.stats : gameState.stats[s] >= 1

TurnIssuingSteps == {"MainStorySettles", "handleChoiceClick",
                     "handleCustomChoiceSubmit"}

Durations(effects) == [i \in 1..Len(effects) |-> <<effects[i].id, effects[i].duration>>]

OneTurnLater(effects) ==
    SelectSeq([i \in 1..Len(effects) |-> <<effects[i].id, effects[i].duration - 1>>],
              LAMBDA e : e[2] >= 1)

\* C23: the duration of every active effect goes down by one per resolved
\* turn (a turn whose AI response is applied) and an effect leaves when its
\* duration reaches 0: the decrement that comes with a turn is the only
\* one until that turn has been answered, so neither Stop, a failure or
\* Retry, nor a new choice made while the last turn is still unanswered,
\* lowers a duration again; an applied response only adds its new effects.
C23_OneDecrementPerResolvedTurn ==
    [][/\ lastAction'.name \in TurnIssuingSteps
          => Durations(gameState'.activeEffects)
                = IF lastTurn >= 1 /\ aiTurnsFor[lastTurn] = 0
                  THEN Durations(gameState.activeEffects)
                  ELSE OneTurnLater(gameState.activeEffects)
       /\ (\/ lastAction'.name \in {"handleStopRequest", "handleRetryRequest"}
           \/ (IsResponseStep(lastAction') /\ ~IsApplied(lastAction')))
          => gameState'.activeEffects = gameState.activeEffects
       /\ IsApplied(lastAction')
          => SubSeq(gameState'.activeEffects, 1, Len(gameState.activeEffects))
                = gameState.activeEffects]_vars

Slots == {"weapon", "armor", "accessory"}

\* C24: after a reconcile whose inventory_removed contains a name, no item
\* of the inventory and no equipped item bears that name (ignoring case);
\* an equipped item removed this way leaves its slot empty and does not
\* come back into the inventory; a removal list that matches no item
\* leaves inventory and equipment as they would be without it.
C24_RemovedNamesAreGone ==
    [][IsApplied(lastAction')
        => LET removed == lastAction'.delta[1].inventory_removed
               held == gameState.inventory \o EquippedItems(gameState)
           IN  /\ \A i \in 1..Len(gameState'.inventory) :
                      ~NamedIn(removed, gameState'.inventory[i].name)
               /\ \A slot \in Slots :
                      LET before == gameState.equipped[slot]
                          after == gameState'.equipped[slot]
                      IN  IF before # None /\ NamedIn(removed, before[1].name)
                          THEN /\ after = None
                               /\ before[1].id \notin ItemIds(gameState'.inventory)
                          ELSE after = before
               /\ (/\ lastAction'.delta[1].inventory_added = <<>>
                   /\ \A i \in 1..Len(held) : ~NamedIn(removed, held[i].name))
                  => gameState'.inventory = gameState.inventory]_vars

C24_Witness ==
    /\ IsApplied(lastAction)
    /\ lastAction.delta = Some(BreakDelta)
    /\ gameState.equipped.weapon = None
    /\ gameState.equipped.armor # None
    /\ ItemIds(gameState.inventory) = 3..8

Matches(names, item) == NamedIn(names, item.name)

\* C25: reconcile carries out the equipment directives of the delta: every
\* inventory item named by an equip directive (ignoring case) that has a
\* slot is in that slot afterwards and no longer in the inventory, with the
\* item it displaced back in the inventory; every equipped item named by an
\* unequip directive has left its slot and is in the inventory.
C25_EquipDirectivesAreApplied ==
    [][IsApplied(lastAction')
        => LET directives == lastAction'.delta[1].equipment_update
           IN  /\ \A i \in 1..Len(gameState.inventory) :
                      LET item == gameState.inventory[i]
                          slot == SlotOf(item)
                      IN  (Matches(directives.equip, item) /\ slot # "")
                            => /\ gameState'.equipped[slot] # None
                               /\ Matches(directives.equip, gameState'.equipped[slot][1])
                               /\ gameState'.equipped[slot][1].id
                                     \notin ItemIds(gameState'.inventory)
                               /\ ItemIds(gameState.equipped[slot])
                                     \subseteq ItemIds(gameState'.inventory)
               /\ \A slot \in Slots :
                      LET worn == gameState.equipped[slot]
                      IN  (worn # None /\ Matches(directives.unequip, worn[1]))
                            => /\ gameState'.equipped[slot] # worn
                               /\ worn[1].id \in ItemIds(gameState'.inventory)]_vars

\* C26: npcs is keyed by name ignoring case: in every state no two entries
\* of npcs have names that are equal ignoring case, whatever add, update and
\* remove directives were reconciled.
C26_NpcNamesAreUnique ==
    \A i, j \in 1..Len(gameState.npcs) :
        i # j => toLowerCase(gameState.npcs[i].name)
                    # toLowerCase(gameState.npcs[j].name)

\* C27: the user's turn enters the history when the turn is issued, before
\* any response; a failed or discarded response, Stop and Retry leave the
\* history as it is; the first response applied for a turn appends one AI
\* turn right behind the user turn of that turn, so "issue, fail or stop,
\* retry, success" ends with that one user turn followed by one AI turn.
C27_UserTurnCommittedAtIssue ==
    [][/\ lastAction'.name \in TurnIssuingSteps
          => /\ Len(gameState'.history) = Len(gameState.history) + 1
             /\ SubSeq(gameState'.history, 1, Len(gameState.history))
                    = gameState.history
             /\ LastTurnOf(gameState').isUserTurn
             /\ LastTurnOf(gameState').text
                    = StripAsterisks(lastTurnParams'[1].userText)
       /\ (\/ lastAction'.name \in {"handleStopRequest", "handleRetryRequest"}
           \/ (IsResponseStep(lastAction') /\ ~IsApplied(lastAction')))
          => gameState'.history = gameState.history
       /\ (IsApplied(lastAction') /\ aiTurnsFor[lastTurn] = 0)
          => /\ LastTurnOf(gameState).isUserTurn
             /\ LastTurnOf(gameState).text
                    = StripAsterisks(lastTurnParams[1].userText)
             /\ Len(gameState'.history) = Len(gameState.history) + 1
             /\ SubSeq(gameState'.history, 1, Len(gameState.history))
                    = gameState.history
             /\ ~LastTurnOf(gameState').isUserTurn]_vars

C27_Witness ==
    /\ IsApplied(lastAction)
    /\ lastTurn = 1
    /\ requestIdRef = 3
    /\ ~showRetry
    /\ aiTurnsFor = <<1>>
    /\ Len(gameState.history) = 2
    /\ gameState.history[1].isUserTurn
    /\ ~gameState.history[2].isUserTurn

AiTurns(history) == Len(history) - Len(UserTurnsOf(history))

\* C28: from a new game on, hpHistory holds one snapshot more than the
\* history holds AI turns; an applied response appends exactly the new hp,
\* and a discarded or failed response, Stop and Retry leave hpHistory as
\* it is.
C28_OneSnapshotPerAppliedResponse ==
    [][/\ Len(gameState.hpHistory) = 1 + AiTurns(gameState.history)
       /\ Len(gameState'.hpHistory) = 1 + AiTurns(gameState'.history)
       /\ IsApplied(lastAction')
          => gameState'.hpHistory = Append(gameState.hpHistory, gameState'.hp)
       /\ (\/ lastAction'.name \in {"handleStopRequest", "handleRetryRequest"}
           \/ (IsResponseStep(lastAction') /\ ~IsApplied(lastAction')))
          => gameState'.hpHistory = gameState.hpHistory]_vars

C28_Witness ==
    /\ IsResponseStep(lastAction)
    /\ lastAction.outcome = "discarded"
    /\ showRetry
    /\ inflight = {}
    /\ AiTurns(gameState.history) = 1
    /\ Len(gameState.hpHistory) = 2
    /\ gameState.hpHistory[2] = gameState.hp

EffectiveStat(gs, s) ==
    gs.stats[s] + SumModifiers(gs.activeEffects, s)
                + SumModifiers([i \in 1..Len(EquippedItems(gs)) |->
                                  [statModifiers |-> EquippedItems(gs)[i].bonuses]], s)

\* C29: every check that handleChoiceClick resolves has a base roll in
\* 1..20, the modifier floor((effective stat - 10) / 2) of the choice's
\* stat, equipment and active effects included (10 -> 0, 12 -> 1, 9 -> -1,
\* 7 -> -2), total = base + modifier, the difficulty of the choice, and
\* isSuccess exactly when total >= difficulty.
C29_CheckResolution ==
    [][(lastAction'.name = "handleChoiceClick"
          /\ LastTurnOf(gameState').rollResult # None)
        => LET roll == LastTurnOf(gameState').rollResult[1]
               choice == pendingChoice'[1]
               stat == EffectiveStat(gameState, choice.type)
           IN  /\ roll.base \in 1..20
               /\ roll.statType = choice.type
               /\ roll.difficulty = choice.difficulty[1]
               /\ 2 * roll.modifier <= stat - 10
               /\ stat - 10 <= 2 * roll.modifier + 1
               /\ stat = 10 => roll.modifier = 0
               /\ stat = 12 => roll.modifier = 1
               /\ stat = 9 => roll.modifier = -1
               /\ stat = 7 => roll.modifier = -2
               /\ roll.total = roll.base + roll.modifier
               /\ roll.isSuccess <=> roll.total >= roll.difficulty]_vars

C29_Witness ==
    /\ lastAction.name = "handleChoiceClick"
    /\ gameState.equipped.weapon # None
    /\ lastTurn = 2
    /\ gameState.stats["STR"] = 10
    /\ LastTurnOf(gameState).rollResult
          = Some([base |-> 13, modifier |-> -1, total |-> 12, isSuccess |-> TRUE,
                  statType |-> "STR", difficulty |-> 12])

\* C30: when the max-HP recompute has run, maxHp is
\* 100 + 10 * floor((effective CON - 10) / 2), and if that changed maxHp,
\* hp is round(hp * newMax / oldMax), halves rounded up; in particular full
\* hp stays full (100/100 at CON 10 becomes 110/110 with CON +2).
C30_MaxHpRecompute ==
    [][lastAction'.name = "useEffectMaxHp"
        => LET con == EffectiveStat(gameState', "CON")
               oldMax == gameState.maxHp
               newMax == gameState'.maxHp
               hp == gameState.hp
               newHp == gameState'.hp
           IN  /\ 2 * (newMax - 100) <= 10 * (con - 10)
               /\ 10 * (con - 10) <= 2 * (newMax - 100) + 10
               /\ (newMax - 100) % 10 = 0
               /\ (newMax # oldMax /\ oldMax > 0)
                    => /\ 2 * oldMax * newHp <= 2 * hp * newMax + oldMax
                       /\ 2 * hp * newMax + oldMax < 2 * oldMax * (newHp + 1)
               /\ newMax = oldMax => newHp = hp
               /\ hp = oldMax => newHp = newMax]_vars

\* C31: after every max-HP recompute, 0 <= hp <= maxHp holds for the new
\* maxHp, whatever the effective CON (also one driven low by stat deltas
\* or by the modifiers of a debuff).
C31_HpWithinNewMax ==
    lastAction.name = "useEffectMaxHp"
        => 0 <= gameState.hp /\ gameState.hp <= gameState.maxHp

\* C32: for every weapon, armor or accessory c in the inventory, the preview
\* stats computed for c are the effective stats of the state handleEquip(c)
\* produces: c's bonuses replace those of the occupant of c's slot, the
\* other slots' bonuses and the effects' modifiers still apply.
C32_PreviewIsStatsAfterEquip ==
    \A i \in 1..Len(gameState.inventory) :
        LET c == gameState.inventory[i]
        IN  SlotOf(c) # ""
                => previewStats(gameState, Some(c))
                     = currentStats(EquipUpdater(gameState, c))

C32_Witness ==
    /\ lastAction.name = "handleEquip"
    /\ gameState.equipped.weapon # None
    /\ gameState.equipped.weapon[1].name = "Dagger"
    /\ gameState.equipped.armor # None
    /\ gameState.activeEffects # <<>>
    /\ \E i \in 1..Len(gameState.inventory) :
          /\ gameState.inventory[i].name = "Sword"
          /\ previewStats(gameState, Some(gameState.inventory[i]))
                = [currentStats(gameState) EXCEPT !["STR"] = 9, !["DEX"] = 8]
    /\ currentStats(gameState)["STR"] = 8
    /\ currentStats(gameState)["DEX"] = 10

NoneWords == {"NONE", "None", "none"}

CountLines(text, lines) == Cardinality({i \in 2..Len(text) : text[i] \in lines})

\* C33: in an UPDATES section, a line whose entity name is NONE in any
\* letter case (ITEM_ADD, ITEM_REMOVE, EQUIP, UNEQUIP, EFFECT_ADD) produces
\* no entry in the delta, and the other lines of the section are still
\* processed: 'ITEM_REMOVE: NONE' yields zero removals.
C33_NoneLinesAreSkipped ==
    (/\ lastAction.name = "parseTextResponse"
     /\ Len(lastAction.text) >= 2
     /\ lastAction.text[1] = "### UPDATES"
     /\ \A i \in 2..Len(lastAction.text) : lastAction.text[i] \notin HeaderLines)
        => /\ lastAction.delta # None
           /\ LET text == lastAction.text
                  r == lastAction.delta[1]
                  Unnamed(entries) ==
                      \A i \in 1..Len(entries) : entries[i].name \notin NoneWords
              IN  /\ Unnamed(r.inventory_added)
                  /\ Unnamed(r.new_effects)
                  /\ \A i \in 1..Len(r.inventory_removed) :
                        r.inventory_removed[i] = "Rope"
                  /\ \A i \in 1..Len(r.equipment_update.equip) :
                        r.equipment_update.equip[i] = "Sword"
                  /\ \A i \in 1..Len(r.equipment_update.unequip) :
                        r.equipment_update.unequip[i] = "Plate Armor"
                  /\ Len(r.inventory_added)
                        = CountLines(text, {"ITEM_ADD: Rope"})
                  /\ Len(r.inventory_removed)
                        = CountLines(text, {"ITEM_REMOVE: Rope"})
                  /\ Len(r.equipment_update.equip)
                        = CountLines(text, {"EQUIP: Sword"})
                  /\ Len(r.equipment_update.unequip)
                        = CountLines(text, {"UNEQUIP: Plate Armor"})
                  /\ Len(r.new_effects)
                        = CountLines(text, {"EFFECT_ADD: Poison | debuff | 2"})
                  /\ CountLines(text, {"HP: abc"}) = 0
                        => r.hp_change = IF CountLines(text, {"HP: -5"}) > 0
                                         THEN -5 ELSE 0

C33_Witness ==
    /\ lastAction.name = "parseTextResponse"
    /\ lastAction.text = <<"### UPDATES", "ITEM_REMOVE: none",
                           "ITEM_REMOVE: Rope", "EQUIP: None">>
    /\ lastAction.delta # None
    /\ lastAction.delta[1].inventory_removed = <<"Rope">>
    /\ lastAction.delta[1].equipment_update = [equip |-> <<>>, unequip |-> <<>>]

\* C34: a failed check leaves statExperience and the base stats as they
\* were on every axis: a standard roll with isSuccess false when the choice
\* is clicked, and an action_result with is_success false when its response
\* is reconciled (the base stats then move only by the response's own
\* stats_update).
C34_FailedCheckAwardsNothing ==
    [][/\ (/\ lastAction'.name = "handleChoiceClick"
            /\ LastTurnOf(gameState').rollResult # None
            /\ ~LastTurnOf(gameState').rollResult[1].isSuccess)
               => /\ gameState'.statExperience = gameState.statExperience
                  /\ gameState'.stats = gameState.stats
       /\ (/\ IsApplied(lastAction')
            /\ lastAction'.delta[1].action_result # None
            /\ ~lastAction'.delta[1].action_result[1].is_success)
               => /\ gameState'.statExperience = gameState.statExperience
                  /\ \A s \in DOMAIN gameState.stats :
                        gameState'.stats[s]
                          = gameState.stats[s]
                              + Clamp(Requested(lastAction'.delta[1], s), -2, 5)
      ]_vars

C34_Witness ==
    /\ IsApplied(lastAction)
    /\ lastAction.delta[1].action_result # None
    /\ ~lastAction.delta[1].action_result[1].is_success
    /\ LastTurnOf(gameState).rollResult # None
    /\ ~LastTurnOf(gameState).rollResult[1].isSuccess
    /\ \E i \in 1..Len(gameState.history) :
          /\ gameState.history[i].isUserTurn
          /\ gameState.history[i].rollResult # None
          /\ ~gameState.history[i].rollResult[1].isSuccess
    /\ gameState.statExperience["STR"] = 0
    /\ gameState.stats = BuilderBase

\* C35: the end of a game triggers the transition of phase to 'game_over'
\* exactly once: the response that ends the game does not both set the
\* phase and schedule a delayed transition, and no delayed transition fires
\* on a game whose phase is 'game_over' already.
C35_GameOverTriggeredOnce ==
    [][/\ (IsApplied(lastAction') /\ gameState'.phase = "game_over")
            => timers' = timers
       /\ lastAction'.name = "GameOverTimer"
            => gameState.phase # "game_over"]_vars

\* C36: phase and gameStatus agree in every reachable state: phase
\* 'game_over' implies gameStatus 'won' or 'lost', and a gameStatus other
\* than 'ongoing' implies phase 'game_over', also when the delayed
\* game-over timer fires after handleRestart or after a later response.
C36_PhaseAgreesWithStatus ==
    /\ gameState.phase = "game_over" => gameState.gameStatus \in {"won", "lost"}
    /\ gameState.gameStatus # "ongoing" => gameState.phase = "game_over"

\* C37: a response to a request issued before handleRestart, handleNewGame
\* or handleLoadGame is never applied to the state that exists after that
\* reset: right after a reset every request in flight is one of the game
\* before, so no response is reconciled in the step that follows it.
C37_NoTurnOfThePreviousGame ==
    [][lastAction.name \in {"handleRestart", "handleNewGame", "handleLoadGame"}
        => ~(/\ IsApplied(lastAction')
             /\ <<gameState'.history, gameState'.hp, gameState'.inventory,
                   gameState'.phase>>
                  # <<gameState.history, gameState.hp, gameState.inventory,
                      gameState.phase>>)]_vars

\* C38: in every reachable state isLoading is true exactly when a request
\* carrying the current request id is outstanding: never idle while a
\* response that will be applied is pending, never loading without a
\* current request.
C38_LoadingIffCurrentRequest ==
    gameState.isLoading <=> (\E r \in inflight : IsCurrent(r.id))

\* C39: every issued turn attempt eventually leaves Requesting, as Applied,
\* Cancelled or Failed: a request in flight is eventually settled, and
\* isLoading eventually becomes false, provided the AI call eventually
\* returns or throws.
C39_TurnAttemptsSettle ==
    /\ gameState.isLoading ~> ~gameState.isLoading
    /\ \A id \in 1..MaxRequestId :
          (\E r \in inflight : r.id = id)
              ~> (\A r \in inflight : r.id # id)

C39_Witness ==
    /\ lastAction.name = "aiResponse"
    /\ lastAction.outcome = "failed"
    /\ requestIdRef = 3
    /\ inflight = {}
    /\ showRetry
    /\ ~gameState.isLoading

\* C40: issuing a Retry changes only the request id, isLoading and
\* showRetry: history, hpHistory, activeEffects, experience, stats and
\* customChoicesRemaining stay as they are, and the request that is sent
\* again carries the parameters of the turn as they were first computed.
C40_RetryChangesOnlyTheRequest ==
    [][lastAction'.name = "handleRetryRequest"
        => /\ gameState' = [gameState EXCEPT !.isLoading = TRUE]
           /\ ~showRetry'
           /\ requestIdRef' = requestIdRef + 1
           /\ lastTurnParams' = lastTurnParams
           /\ currentChoices' = currentChoices
           /\ timers' = timers
           /\ \E r \in inflight' :
                 /\ inflight' = inflight \cup {r}
                 /\ r.id = requestIdRef'
                 /\ r.params = lastTurnParams[1]]_vars

C40_Witness ==
    /\ lastAction.name = "handleRetryRequest"
    /\ requestIdRef = 3
    /\ lastTurnParams # None
    /\ lastTurnParams[1].customAction # None
    /\ gameState.customChoicesRemaining = INITIAL_CUSTOM_CHOICES - 1
    /\ gameState.isLoading
    /\ ~showRetry
    /\ Len(gameState.hpHistory) = 2
    /\ Len(gameState.history) = 3

====
